---- MODULE Spec2Model ----
(***************************************************************************)
(* A model of the referral / reward / balance engine of watch-earn: the    *)
(* Prisma rows it keeps (User, Deposit, UserPlanProgress, ReferralReward)  *)
(* and the route handlers and lib/referral.ts functions that change them.  *)
(*                                                                         *)
(* Money is counted in cents, so that depositAmount * 0.04 and Math.trunc  *)
(* are computed, not assumed.  A handler is cut into steps at its awaits:  *)
(* a read of the database, then the writes of the transaction it opened    *)
(* (Prisma's interactive transactions run at the database's default        *)
(* isolation level: a read takes no lock, increments are applied to the    *)
(* row as it is when the write runs).                                      *)
(***************************************************************************)
EXTENDS Integers, Sequences, FiniteSets, TLC

\* ------------------------------------------------------------------ bounds
NumUsers == 3
MaxProcs == 2
MaxDeposits == 2
MaxRewards == 2

Users == 1..NumUsers
Procs == 1..MaxProcs

\* ------------------------------------------------------------------ values
\* a null foreign key / a missing request field
NoUser == 0
NoRow == 0

Roles == {"admin", "user"}
Currencies == {"USDT"}
Hashes == {"tx1"}

\* const allowedPlans = [50, 100, 150, 250, 500, 1000, 1500, 2500] (in cents)
allowedPlans == {5000, 10000, 15000, 25000, 50000, 100000, 150000, 250000}

\* const PLAN_REWARDS: Record<string, number>, keyed by the plan in dollars
PLAN_REWARDS ==
  (50 :> 2) @@ (100 :> 4) @@ (150 :> 6) @@ (250 :> 10) @@
  (500 :> 20) @@ (1000 :> 40) @@ (1500 :> 60) @@ (2500 :> 100)

\* Math.trunc of an amount (cents in, cents out)
MathTrunc(c) == (c \div 100) * 100

\* the key String(x) / x.toString() gives for an amount: its dollars when it
\* is a whole number of dollars, and a string that is no key of the table
\* (here -1) otherwise
PlanKey(c) == IF c % 100 = 0 THEN c \div 100 ELSE -1

\* PLAN_REWARDS[key] || 0, as cents
RewardLookup(c) ==
  IF PlanKey(c) \in DOMAIN PLAN_REWARDS THEN PLAN_REWARDS[PlanKey(c)] * 100 ELSE 0

\* depositAmount * 0.05
FivePercent(c) == (c * 5) \div 100

\* depositAmount * 0.04, as cents; the IEEE-754 product is exact for each
\* of the eight plans (2, 4, 6, 10, 20, 40, 60, 100)
FourPercent(c) == (c * 4) \div 100

\* planType is a string: the label the creators write, and the number of
\* " [credited]" suffixes the reconciliation has appended to it
PlanTypeLabel(c) == [label |-> "Referral Bonus", plan |-> c, credited |-> 0]
EndsWithCredited(pt) == pt.credited > 0
AppendCredited(pt) == [pt EXCEPT !.credited = @ + 1]
IsReferredUserBonus(pt) == pt.label = "Referred User Bonus"

\* ------------------------------------------------------------------ state
VARIABLES
  users,          \* ids of the User rows
  referralCode,   \* User.referralCode
  referredById,   \* User.referredById
  referredByCode, \* User.referredByCode
  referralCount,  \* User.referralCount
  balance,        \* User.balance
  totalEarned,    \* User.totalEarned
  deposits,       \* Deposit rows, by id
  plans,          \* UserPlanProgress rows, by id
  rewards,        \* ReferralReward rows, by id
  withdrawals,    \* Withdrawal rows, by id
  creditLog,      \* history: per reward, how often each path credited it
  pc,             \* where each request is in its handler
  loc             \* the locals of each request

db == <<users, referralCode, referredById, referredByCode, referralCount,
        balance, totalEarned, deposits, plans, rewards, withdrawals>>
vars == <<users, referralCode, referredById, referredByCode, referralCount,
          balance, totalEarned, deposits, plans, rewards, withdrawals,
          creditLog, pc, loc>>

NoCode == <<>>
NoLoc == [op |-> "none", user |-> NoUser, amount |-> 0, currency |-> "",
          hash |-> "", address |-> "", available |-> 0, rid |-> NoRow, dep |-> NoRow, seen |-> {},
          role |-> "", code |-> NoCode, ref |-> NoUser, attempts |-> 0,
          out |-> "", total |-> 0, flag |-> FALSE, rows |-> <<>>]

Ids(rows) == 1..Len(rows)

RECURSIVE SumOver(_, _)
SumOver(S, f) ==
  IF S = {} THEN 0
  ELSE LET x == CHOOSE y \in S : TRUE IN f[x] + SumOver(S \ {x}, f)

\* the newest row of a table that satisfies a filter (orderBy id desc), or NoRow
Latest(rows, Match(_)) ==
  LET S == {i \in Ids(rows) : Match(rows[i])}
  IN IF S = {} THEN NoRow ELSE CHOOSE i \in S : \A j \in S : j <= i

\* the rows a request in flight is still going to insert
DepositsInFlight ==
  Cardinality({q \in Procs : pc[q] \in {"submit_tx", "submit5_create",
                                        "confirm_tx", "confirm7_tx"}})
RewardsInFlight ==
  Cardinality({q \in Procs : pc[q] \in {"submit_tx", "confirm_tx", "confirm_reward",
                                        "confirm7_tx", "confirm7_reward",
                                        "confirm6_tx", "confirm6_write",
                                        "confirm6_payout"}})
RoomForDeposit == Len(deposits) + DepositsInFlight < MaxDeposits
RoomForReward == Len(rewards) + RewardsInFlight < MaxRewards

Finish(p, l, status) ==
  /\ pc' = [pc EXCEPT ![p] = "done"]
  /\ loc' = [loc EXCEPT ![p] = [l EXCEPT !.out = status]]

Goto(p, l, label) ==
  /\ pc' = [pc EXCEPT ![p] = label]
  /\ loc' = [loc EXCEPT ![p] = l]

\* the response has been sent: the request is over
Return(p) ==
  /\ pc[p] = "done"
  /\ pc' = [pc EXCEPT ![p] = "idle"]
  /\ loc' = [loc EXCEPT ![p] = NoLoc]
  /\ UNCHANGED <<db, creditLog>>

\* ------------------------------------------------------------------ rows
NewDeposit(u, amt, cur, h, st, at) ==
  [userId |-> u, amount |-> amt, currency |-> cur, hash |-> h,
   status |-> st, confirmedAt |-> at]

\* create: { userId, planAmount } with the schema's defaults
NewPlan(u, amt) ==
  [userId |-> u, planAmount |-> amt, profit |-> 0, roundCount |-> 0,
   canWithdraw |-> FALSE]

\* status: "pending", paidAt: null
NewReward(referrer, referred, amt, plan) ==
  [referrerId |-> referrer, referredUserId |-> referred, amount |-> amt,
   planAmount |-> plan, planType |-> PlanTypeLabel(plan),
   status |-> "pending", paidAt |-> FALSE]

\* history of a reward row: the path that created it, and the credits made for it
NoCredit(by) == [by |-> by, approve |-> 0, recon |-> 0]

\* userPlanProgress.upsert({ where: { userId_planAmount }, update: {}, create })
Upsert(rows, u, amt) ==
  IF \E i \in Ids(rows) : rows[i].userId = u /\ rows[i].planAmount = amt
  THEN rows
  ELSE Append(rows, NewPlan(u, amt))

Credit_balanceOnly(u, amt) ==
  /\ balance' = [balance EXCEPT ![u] = @ + amt]
  /\ UNCHANGED totalEarned

\* balance: { increment: amt }, totalEarned: { increment: amt }
Credit(u, amt) ==
  /\ balance' = [balance EXCEPT ![u] = @ + amt]
  /\ totalEarned' = [totalEarned EXCEPT ![u] = @ + amt]

\* what no deposit or reward handler writes: the referral columns of User
\* and the Withdrawal table
UsersUnchanged ==
  UNCHANGED <<users, referralCode, referredById, referredByCode, referralCount,
              withdrawals>>

\* !transactionHash || !amount || !currency
MissingField(amt, cur, h) == h = "" \/ amt = 0 \/ cur = ""

HasPending(u) == \E i \in Ids(deposits) :
  deposits[i].userId = u /\ deposits[i].status = "pending"
HasPlan(u) == \E i \in Ids(plans) : plans[i].userId = u

\* ------------------------------------------------------------------ submit
\* the checks of a submission without the plan check
SubmitRejected_anyAmount(u, amt, cur, h) ==
  \/ MissingField(amt, cur, h)
  \/ HasPending(u)

\* submitDeposit up to the transaction: the field check, the plan check and
\* the pending-deposit check (the same text in submit/route.ts and part_005)
SubmitRejected(u, amt, cur, h) ==
  \/ MissingField(amt, cur, h)
  \/ amt \notin allowedPlans
  \/ HasPending(u)

submitDeposit_begin(p, u, amt, cur, h) ==
  /\ pc[p] = "idle"
  /\ u \in users
  /\ LET l == [NoLoc EXCEPT !.op = "submitDeposit", !.user = u, !.amount = amt,
                            !.currency = cur, !.hash = h]
     IN IF SubmitRejected(u, amt, cur, h)
        THEN Finish(p, l, "400")
        ELSE RoomForDeposit /\ RoomForReward /\ Goto(p, l, "submit_tx")
  /\ UNCHANGED <<db, creditLog>>

\* the transaction of submit/route.ts: the pending deposit, and a pending
\* reward when the user was referred and the pair has no reward row yet
submitDeposit_tx(p) ==
  /\ pc[p] = "submit_tx"
  /\ LET l == loc[p]
         u == l.user
         ref == referredById[u]
         existingReward == \E i \in Ids(rewards) :
            rewards[i].referrerId = ref /\ rewards[i].referredUserId = u
         rewardAmount == RewardLookup(MathTrunc(l.amount))
     IN /\ deposits' = Append(deposits,
              NewDeposit(u, l.amount, l.currency, l.hash, "pending", FALSE))
        /\ IF ref # NoUser /\ ~existingReward /\ rewardAmount > 0
           THEN /\ rewards' = Append(rewards,
                      NewReward(ref, u, rewardAmount, MathTrunc(l.amount)))
                /\ creditLog' = Append(creditLog, NoCredit("submitDeposit"))
           ELSE UNCHANGED <<rewards, creditLog>>
        /\ Finish(p, [l EXCEPT !.dep = Len(deposits) + 1], "201")
  /\ UNCHANGED <<balance, totalEarned, plans>>
  /\ UsersUnchanged

\* part_005: the same checks, then the pending deposit only
submitDeposit5_begin(p, u, amt, cur, h) ==
  /\ pc[p] = "idle"
  /\ u \in users
  /\ LET l == [NoLoc EXCEPT !.op = "submitDeposit5", !.user = u, !.amount = amt,
                            !.currency = cur, !.hash = h]
     IN IF SubmitRejected(u, amt, cur, h)
        THEN Finish(p, l, "400")
        ELSE RoomForDeposit /\ Goto(p, l, "submit5_create")
  /\ UNCHANGED <<db, creditLog>>

submitDeposit5_create(p) ==
  /\ pc[p] = "submit5_create"
  /\ LET l == loc[p]
     IN /\ deposits' = Append(deposits,
              NewDeposit(l.user, l.amount, l.currency, l.hash, "pending", FALSE))
        /\ Finish(p, [l EXCEPT !.dep = Len(deposits) + 1], "201")
  /\ UNCHANGED <<balance, totalEarned, plans, rewards, creditLog>>
  /\ UsersUnchanged

\* ------------------------------------------------------------------ confirm
\* confirmDeposit up to the transaction: the field check, the one-plan check
\* and the plan check (the same text in confirm/route.ts, part_006, part_007)
ConfirmRejected(u, amt, cur, h) ==
  \/ MissingField(amt, cur, h)
  \/ HasPlan(u)
  \/ amt \notin allowedPlans

\* confirm/route.ts
confirmDeposit_begin(p, u, amt, cur, h) ==
  /\ pc[p] = "idle"
  /\ u \in users
  /\ LET l == [NoLoc EXCEPT !.op = "confirmDeposit", !.user = u, !.amount = amt,
                            !.currency = cur, !.hash = h]
     IN IF ConfirmRejected(u, amt, cur, h)
        THEN Finish(p, l, "400")
        ELSE RoomForDeposit /\ RoomForReward /\ Goto(p, l, "confirm_tx")
  /\ UNCHANGED <<db, creditLog>>

\* the deposit row (status "pending", confirmedAt set), the credit, the plan
confirmDeposit_tx(p) ==
  /\ pc[p] = "confirm_tx"
  /\ LET l == loc[p]
     IN /\ deposits' = Append(deposits,
              NewDeposit(l.user, l.amount, l.currency, l.hash, "pending", TRUE))
        /\ Credit(l.user, l.amount)
        /\ plans' = Upsert(plans, l.user, l.amount)
        /\ Goto(p, [l EXCEPT !.dep = Len(deposits) + 1], "confirm_reward")
  /\ UNCHANGED <<rewards, creditLog>>
  /\ UsersUnchanged

\* deposit.count({ userId, status: 'approved', id: { not: dep } })
ApprovedCount(u, dep) ==
  Cardinality({i \in Ids(deposits) :
     deposits[i].userId = u /\ deposits[i].status = "approved" /\ i # dep})

\* the second transaction of confirm/route.ts: 4% of the deposit, pending
confirmDeposit_reward(p) ==
  /\ pc[p] = "confirm_reward"
  /\ LET l == loc[p]
         u == l.user
         ref == referredById[u]
     IN /\ IF ref # NoUser /\ ApprovedCount(u, l.dep) = 0 /\ ref \in users
           THEN /\ rewards' = Append(rewards,
                      NewReward(ref, u, FourPercent(l.amount), l.amount))
                /\ creditLog' = Append(creditLog, NoCredit("confirmDeposit"))
           ELSE UNCHANGED <<rewards, creditLog>>
        /\ Finish(p, l, "201")
  /\ UNCHANGED <<balance, totalEarned, deposits, plans>>
  /\ UsersUnchanged

\* a statement of the reward step throws: the catch of the handler logs it
\* and the confirmation answers 201 all the same
confirmDeposit_reward_fail(p) ==
  /\ pc[p] = "confirm_reward"
  /\ Finish(p, loc[p], "201")
  /\ UNCHANGED <<db, creditLog>>

\* ------------------------------------------------------------------ lib/referral.ts
\* processReferralReward(referredUserId), in the order of its checks:
\* "null" (no referrer, or the pair already has a paid reward), "throw" (no
\* approved deposit, no plan, or no reward for the plan), else "created"
LatestApprovedDeposit(u) ==
  LET M(d) == d.userId = u /\ d.status = "approved" IN Latest(deposits, M)
LatestPlan(u) ==
  LET M(r) == r.userId = u IN Latest(plans, M)
HasPaidReward(referrer, referred) == \E i \in Ids(rewards) :
  /\ rewards[i].referredUserId = referred
  /\ rewards[i].referrerId = referrer
  /\ rewards[i].status = "paid"

processReferralReward_outcome(u) ==
  IF referredById[u] = NoUser \/ referredById[u] \notin users THEN "null"
  ELSE IF HasPaidReward(referredById[u], u) THEN "null"
  ELSE IF LatestApprovedDeposit(u) = NoRow THEN "throw"
  ELSE IF LatestPlan(u) = NoRow THEN "throw"
  ELSE IF RewardLookup(plans[LatestPlan(u)].planAmount) <= 0 THEN "throw"
  ELSE "created"

processReferralReward_row(u) ==
  LET plan == plans[LatestPlan(u)].planAmount
  IN NewReward(referredById[u], u, RewardLookup(plan), plan)

\* the effect of a call on the reward table
processReferralReward(u) ==
  IF processReferralReward_outcome(u) = "created"
  THEN /\ rewards' = Append(rewards, processReferralReward_row(u))
       /\ creditLog' = Append(creditLog, NoCredit("processReferralReward"))
  ELSE UNCHANGED <<rewards, creditLog>>

\* a call of the exported function by itself
processReferralReward_call(p, u) ==
  /\ pc[p] = "idle"
  /\ u \in users
  /\ processReferralReward_outcome(u) = "created" => RoomForReward
  /\ processReferralReward(u)
  /\ Finish(p, [NoLoc EXCEPT !.op = "processReferralReward", !.user = u,
                             !.rid = IF processReferralReward_outcome(u) = "created"
                                     THEN Len(rewards) + 1 ELSE NoRow],
            processReferralReward_outcome(u))
  /\ UNCHANGED <<balance, totalEarned, deposits, plans>>
  /\ UsersUnchanged

\* approveReferralReward(rewardId): a call of the exported function by itself
approveReferralReward_call(p, rid) ==
  /\ pc[p] = "idle"
  /\ Goto(p, [NoLoc EXCEPT !.op = "approveReferralReward", !.rid = rid], "approveLib_read")
  /\ UNCHANGED <<db, creditLog>>

\* if (!reward || reward.status === "paid") throw; the caller in part_006
\* catches the error and answers 201
approveReferralReward_read(p) ==
  /\ pc[p] = "approveLib_read"
  /\ LET l == loc[p]
     IN IF l.rid \notin Ids(rewards) \/ rewards[l.rid].status = "paid"
        THEN Finish(p, l, IF l.op = "confirmDeposit6" THEN "201" ELSE "throw")
        ELSE Goto(p, l, "approveLib_write")
  /\ UNCHANGED <<db, creditLog>>

\* the user the reward is credited to: the referred user for the label
\* "Referred User Bonus", the referrer otherwise
UserIdToCredit(r) ==
  IF IsReferredUserBonus(r.planType) THEN r.referredUserId ELSE r.referrerId

approveReferralReward_write(p) ==
  /\ pc[p] = "approveLib_write"
  /\ LET l == loc[p]
         r == rewards[l.rid]
     IN /\ Credit(UserIdToCredit(r), r.amount)
        /\ rewards' = [rewards EXCEPT ![l.rid] = [@ EXCEPT !.status = "paid", !.paidAt = TRUE]]
        /\ creditLog' = [creditLog EXCEPT ![l.rid] = [@ EXCEPT !.approve = @ + 1]]
        /\ Finish(p, l, IF l.op = "confirmDeposit6" THEN "201" ELSE "ok")
  /\ UNCHANGED <<deposits, plans>>
  /\ UsersUnchanged

\* ------------------------------------------------------------------ part_007
confirmDeposit7_begin(p, u, amt, cur, h) ==
  /\ pc[p] = "idle"
  /\ u \in users
  /\ LET l == [NoLoc EXCEPT !.op = "confirmDeposit7", !.user = u, !.amount = amt,
                            !.currency = cur, !.hash = h]
     IN IF ConfirmRejected(u, amt, cur, h)
        THEN Finish(p, l, "400")
        ELSE RoomForDeposit /\ RoomForReward /\ Goto(p, l, "confirm7_tx")
  /\ UNCHANGED <<db, creditLog>>

\* the deposit row (status "approved"), the credit, the plan
confirmDeposit7_tx(p) ==
  /\ pc[p] = "confirm7_tx"
  /\ LET l == loc[p]
     IN /\ deposits' = Append(deposits,
              NewDeposit(l.user, l.amount, l.currency, l.hash, "approved", TRUE))
        /\ Credit(l.user, l.amount)
        /\ plans' = Upsert(plans, l.user, l.amount)
        /\ Goto(p, [l EXCEPT !.dep = Len(deposits) + 1], "confirm7_reward")
  /\ UNCHANGED <<rewards, creditLog>>
  /\ UsersUnchanged

\* after the transaction: processReferralReward for a first deposit
confirmDeposit7_reward(p) ==
  /\ pc[p] = "confirm7_reward"
  /\ LET l == loc[p]
     IN /\ IF referredById[l.user] # NoUser /\ ApprovedCount(l.user, l.dep) = 0
           THEN processReferralReward(l.user)
           ELSE UNCHANGED <<rewards, creditLog>>
        /\ Finish(p, l, "201")
  /\ UNCHANGED <<balance, totalEarned, deposits, plans>>
  /\ UsersUnchanged

\* ------------------------------------------------------------------ part_006
confirmDeposit6_begin(p, u, amt, cur, h) ==
  /\ pc[p] = "idle"
  /\ u \in users
  /\ LET l == [NoLoc EXCEPT !.op = "confirmDeposit6", !.user = u, !.amount = amt,
                            !.currency = cur, !.hash = h]
     IN IF ConfirmRejected(u, amt, cur, h)
        THEN Finish(p, l, "400")
        ELSE RoomForReward /\ Goto(p, l, "confirm6_tx")
  /\ UNCHANGED <<db, creditLog>>

\* deposit.findFirst({ userId, status: 'pending', transactionHash })
PendingFor(u, h) == {i \in Ids(deposits) :
  deposits[i].userId = u /\ deposits[i].status = "pending" /\ deposits[i].hash = h}

\* the transaction of part_006, its reads: the pending deposit of this user
\* and hash, and the comparison with the request; a throw is answered 500
confirmDeposit6_tx(p) ==
  /\ pc[p] = "confirm6_tx"
  /\ LET l == loc[p]
     IN IF PendingFor(l.user, l.hash) = {}
        THEN Finish(p, l, "500")
        ELSE \E i \in PendingFor(l.user, l.hash) :
               IF deposits[i].amount # l.amount \/ deposits[i].currency # l.currency
               THEN Finish(p, l, "500")
               ELSE Goto(p, [l EXCEPT !.dep = i], "confirm6_write")
  /\ UNCHANGED <<db, creditLog>>

\* the writes of the transaction: update({ where: { id: pending.id } }) to
\* confirmed, the increments, the plan. The update names the id alone, so
\* at read committed it also applies to a row another confirmation has
\* confirmed since the read
confirmDeposit6_write(p) ==
  /\ pc[p] = "confirm6_write"
  /\ LET l == loc[p]
     IN /\ deposits' = [deposits EXCEPT ![l.dep] =
               [@ EXCEPT !.status = "confirmed", !.confirmedAt = TRUE]]
        /\ Credit(l.user, l.amount)
        /\ plans' = Upsert(plans, l.user, l.amount)
        /\ Goto(p, l, "confirm6_payout")
  /\ UNCHANGED <<rewards, creditLog>>
  /\ UsersUnchanged

\* a payout block whose failure fails the request
confirmDeposit6_payout_failsRequest(p) ==
  /\ pc[p] = "confirm6_payout"
  /\ LET l == loc[p]
         outcome == processReferralReward_outcome(l.user)
     IN /\ IF referredById[l.user] # NoUser
           THEN processReferralReward(l.user)
           ELSE UNCHANGED <<rewards, creditLog>>
        /\ IF referredById[l.user] # NoUser /\ outcome = "created"
           THEN Goto(p, [l EXCEPT !.rid = Len(rewards) + 1], "approveLib_read")
           ELSE Finish(p, l, IF referredById[l.user] # NoUser /\ outcome = "throw"
                             THEN "500" ELSE "201")
  /\ UNCHANGED <<balance, totalEarned, deposits, plans>>
  /\ UsersUnchanged

\* after the transaction: create the reward and go on to approve it
confirmDeposit6_payout(p) ==
  /\ pc[p] = "confirm6_payout"
  /\ LET l == loc[p]
         made == referredById[l.user] # NoUser
                 /\ processReferralReward_outcome(l.user) = "created"
     IN /\ IF referredById[l.user] # NoUser
           THEN processReferralReward(l.user)
           ELSE UNCHANGED <<rewards, creditLog>>
        /\ IF made
           THEN Goto(p, [l EXCEPT !.rid = Len(rewards) + 1], "approveLib_read")
           ELSE Finish(p, l, "201")
  /\ UNCHANGED <<balance, totalEarned, deposits, plans>>
  /\ UsersUnchanged

\* ------------------------------------------------------------------ approve (part_004)
\* the admin route without the status in the lookup of the reward
approveRoute_begin_anyStatus(p, role, rid) ==
  /\ pc[p] = "idle"
  /\ LET l == [NoLoc EXCEPT !.op = "approveRoute", !.role = role, !.rid = rid]
     IN IF role # "admin" THEN Finish(p, l, "403")
        ELSE IF rid = NoRow THEN Finish(p, l, "400")
        ELSE IF rid \notin Ids(rewards)
        THEN Finish(p, l, "500")
        ELSE Goto(p, l, "approve_write")
  /\ UNCHANGED <<db, creditLog>>

\* the admin route without the role check
approveRoute_begin_anyRole(p, role, rid) ==
  /\ pc[p] = "idle"
  /\ LET l == [NoLoc EXCEPT !.op = "approveRoute", !.role = role, !.rid = rid]
     IN IF rid = NoRow THEN Finish(p, l, "400")
        ELSE IF rid \notin Ids(rewards) \/ rewards[rid].status # "pending"
        THEN Finish(p, l, "500")
        ELSE Goto(p, l, "approve_write")
  /\ UNCHANGED <<db, creditLog>>

\* the admin route up to the writes: the role check, the id check and
\* findUnique({ id: rewardId, status: 'pending' }) inside the transaction
approveRoute_begin(p, role, rid) ==
  /\ pc[p] = "idle"
  /\ LET l == [NoLoc EXCEPT !.op = "approveRoute", !.role = role, !.rid = rid]
     IN IF role # "admin" THEN Finish(p, l, "403")
        ELSE IF rid = NoRow THEN Finish(p, l, "400")
        ELSE IF rid \notin Ids(rewards) \/ rewards[rid].status # "pending"
        THEN Finish(p, l, "500")
        ELSE Goto(p, l, "approve_write")
  /\ UNCHANGED <<db, creditLog>>

\* status paid, paidAt now; the referrer's balance and totalEarned
approveRoute_write(p) ==
  /\ pc[p] = "approve_write"
  /\ LET l == loc[p]
         r == rewards[l.rid]
     IN /\ rewards' = [rewards EXCEPT ![l.rid] = [@ EXCEPT !.status = "paid", !.paidAt = TRUE]]
        /\ Credit(r.referrerId, r.amount)
        /\ creditLog' = [creditLog EXCEPT ![l.rid] = [@ EXCEPT !.approve = @ + 1]]
        /\ Finish(p, l, "200")
  /\ UNCHANGED <<deposits, plans>>
  /\ UsersUnchanged

\* ------------------------------------------------------------------ all-progress
\* referralReward.findMany({ referrerId, status: 'paid',
\*   OR: [{ planType: null }, { planType: { not: { endsWith: ' [credited]' } } }] })
UncreditedPaid(u) == {i \in Ids(rewards) :
  /\ rewards[i].referrerId = u
  /\ rewards[i].status = "paid"
  /\ ~EndsWithCredited(rewards[i].planType)}

\* the read of the reconcile transaction
allProgress_read(p, u) ==
  /\ pc[p] = "idle"
  /\ u \in users
  /\ Goto(p, [NoLoc EXCEPT !.op = "allProgress", !.user = u, !.seen = UncreditedPaid(u)],
          "recon_credit")
  /\ UNCHANGED <<db, creditLog>>

\* a pass that credits and leaves the planType as it was
MarkCredited_noMarker(r) == r

\* a marking that also puts the reward back to pending
MarkCredited_reopens(r) ==
  [r EXCEPT !.planType = AppendCredited([@ EXCEPT !.credited = 0]), !.status = "pending"]

\* planType: `${r.planType} [credited]`, of the planType that was read
MarkCredited(r) == [r EXCEPT !.planType = AppendCredited([@ EXCEPT !.credited = 0])]

\* the writes of the reconcile transaction: the sum of what was read is
\* added to balance and totalEarned, and each reward read is marked
allProgress_credit(p) ==
  /\ pc[p] = "recon_credit"
  /\ LET l == loc[p]
         totalToCredit == SumOver(l.seen, [i \in l.seen |-> rewards[i].amount])
     IN /\ IF l.seen # {} /\ totalToCredit > 0
           THEN /\ Credit(l.user, totalToCredit)
                /\ creditLog' = [i \in Ids(creditLog) |->
                      IF i \in l.seen THEN [creditLog[i] EXCEPT !.recon = @ + 1]
                      ELSE creditLog[i]]
           ELSE UNCHANGED <<balance, totalEarned, creditLog>>
        /\ rewards' = [i \in Ids(rewards) |->
              IF i \in l.seen THEN MarkCredited(rewards[i]) ELSE rewards[i]]
        /\ Goto(p, [l EXCEPT !.seen = {}], "recon_summary")
  /\ UNCHANGED <<deposits, plans>>
  /\ UsersUnchanged

PlansOf(u) == {i \in Ids(plans) : plans[i].userId = u}
PlanProfit(rows, u) ==
  LET S == {i \in Ids(rows) : rows[i].userId = u}
  IN SumOver(S, [i \in S |-> rows[i].profit])
CanWithdraw_orBalance(rows, u) ==
  \/ \E i \in Ids(rows) :
       rows[i].userId = u /\ rows[i].canWithdraw /\ rows[i].profit > 0 /\ rows[i].roundCount > 0
  \/ balance[u] > 0

\* progresses.some((p) => p.canWithdraw && p.profit > 0 && p.roundCount > 0)
CanWithdraw(rows, u) == \E i \in Ids(rows) :
  rows[i].userId = u /\ rows[i].canWithdraw /\ rows[i].profit > 0 /\ rows[i].roundCount > 0
LatestConfirmedDeposit(u) ==
  LET M(d) == d.userId = u /\ d.status = "confirmed" IN Latest(deposits, M)

\* the plan rows after "if no progress exists yet, but user has a confirmed
\* deposit, create the plan progress now"
PlansAfterBackfill(u) ==
  IF PlansOf(u) = {} /\ LatestConfirmedDeposit(u) # NoRow
  THEN Upsert(plans, u, MathTrunc(deposits[LatestConfirmedDeposit(u)].amount))
  ELSE plans

\* the rest of the reconciling GET: the balance, the plan rows (created
\* from the latest confirmed deposit when there is none) and the totals
allProgress_summary(p) ==
  /\ pc[p] = "recon_summary"
  /\ LET l == loc[p]
         rows == PlansAfterBackfill(l.user)
     IN /\ plans' = rows
        /\ Finish(p, [l EXCEPT !.total = balance[l.user] + PlanProfit(rows, l.user),
                               !.flag = CanWithdraw(rows, l.user)], "200")
  /\ UNCHANGED <<balance, totalEarned, deposits, rewards, creditLog>>
  /\ UsersUnchanged

\* ------------------------------------------------------------------ the other summaries
\* the sum of the amounts of the rewards of a table that pass a filter
RewardSum(rws, S) == SumOver(S, [i \in S |-> rws[i].amount])

\* all-progress/route.ts, the first GET: the paid rewards of the user as
\* referrer or as referred user
totalProfit1(rows, rws, u) ==
  PlanProfit(rows, u)
  + RewardSum(rws, {i \in Ids(rws) :
      (rws[i].referrerId = u \/ rws[i].referredUserId = u) /\ rws[i].status = "paid"})

\* all-progress/route.ts, the last GET: the paid rewards of the user as referrer
totalProfit3(rows, rws, u) ==
  PlanProfit(rows, u)
  + RewardSum(rws, {i \in Ids(rws) : rws[i].referrerId = u /\ rws[i].status = "paid"})

\* the GET of part_004: referralPaid + referralPending of the rewards of
\* the user as referrer with status in ['pending', 'paid']
totalProfit4(rows, rws, u) ==
  PlanProfit(rows, u)
  + RewardSum(rws, {i \in Ids(rws) :
      rws[i].referrerId = u /\ rws[i].status \in {"pending", "paid"}})

allProgress1_summary(p, u) ==
  /\ pc[p] = "idle"
  /\ u \in users
  /\ Finish(p, [NoLoc EXCEPT !.op = "allProgress1", !.user = u,
                             !.total = totalProfit1(plans, rewards, u),
                             !.flag = CanWithdraw(plans, u)], "200")
  /\ UNCHANGED <<db, creditLog>>

allProgress3_summary(p, u) ==
  /\ pc[p] = "idle"
  /\ u \in users
  /\ Finish(p, [NoLoc EXCEPT !.op = "allProgress3", !.user = u,
                             !.total = totalProfit3(plans, rewards, u),
                             !.flag = CanWithdraw(plans, u)], "200")
  /\ UNCHANGED <<db, creditLog>>

\* part_004: the plan rows (created from the latest confirmed deposit when
\* there is none), the rewards, the totals
allProgress4_summary(p, u) ==
  /\ pc[p] = "idle"
  /\ u \in users
  /\ LET rows == PlansAfterBackfill(u)
     IN /\ plans' = rows
        /\ Finish(p, [NoLoc EXCEPT !.op = "allProgress4", !.user = u,
                                   !.total = totalProfit4(rows, rewards, u),
                                   !.flag = CanWithdraw(rows, u)], "200")
  /\ UNCHANGED <<balance, totalEarned, deposits, rewards, creditLog>>
  /\ UsersUnchanged

\* ------------------------------------------------------------------ withdrawals
MaxWithdrawals == 2
MaxRounds == 2

Addresses == {"addr1", ""}

\* profit, roundCount and canWithdraw of a plan row are written by the
\* round engine, which is outside these sources: a round adds a profit
\* to the row and leaves the withdrawal flag set or not
RoundProfit == 10000
accrueProfit(i, flag) ==
  /\ i \in Ids(plans)
  /\ plans[i].roundCount < MaxRounds
  /\ plans' = [plans EXCEPT ![i] = [@ EXCEPT !.profit = @ + RoundProfit,
                                             !.roundCount = @ + 1,
                                             !.canWithdraw = flag]]
  /\ UNCHANGED <<balance, totalEarned, deposits, rewards, creditLog, pc, loc>>
  /\ UsersUnchanged

\* referralReward.aggregate({ referrerId, status: "paid" })._sum.amount
ReferralProfit(u) ==
  LET S == {i \in Ids(rewards) : rewards[i].referrerId = u /\ rewards[i].status = "paid"}
  IN SumOver(S, [i \in S |-> rewards[i].amount])

NeededTopUp_none(amt, available) == 0

\* Math.max(0, parsedAmount - available)
NeededTopUp(amt, available) == IF amt - available > 0 THEN amt - available ELSE 0

\* the loop over the rows the transaction has read (the user's rows with
\* profit > 0, by ascending id): take = Math.min(profit, remaining) of the
\* row as read, profit: { decrement: take } on the row as it is now
RECURSIVE DrainProfit(_, _, _, _, _)
DrainProfit(rows, seen, u, i, remaining) ==
  IF i > Len(seen) THEN rows
  ELSE LET take == IF seen[i].userId = u /\ seen[i].profit > 0 /\ remaining > 0
                   THEN (IF seen[i].profit < remaining THEN seen[i].profit ELSE remaining)
                   ELSE 0
       IN DrainProfit([rows EXCEPT ![i] = [@ EXCEPT !.profit = @ - take]],
                      seen, u, i + 1, remaining - take)

\* the checks of the request body: a missing field, or an amount <= 0
WithdrawalRejected(amt, cur, addr) ==
  \/ amt = 0 \/ cur = "" \/ addr = ""
  \/ amt <= 0

submitWithdrawal_begin(p, u, amt, cur, addr) ==
  /\ pc[p] = "idle"
  /\ u \in users
  /\ LET l == [NoLoc EXCEPT !.op = "submitWithdrawal", !.user = u, !.amount = amt,
                            !.currency = cur, !.address = addr]
     IN IF WithdrawalRejected(amt, cur, addr)
        THEN Finish(p, l, "400")
        ELSE Len(withdrawals) < MaxWithdrawals /\ Goto(p, l, "wd_balance")
  /\ UNCHANGED <<db, creditLog>>

\* user.findUnique({ select: { balance } }): available
submitWithdrawal_balance(p) ==
  /\ pc[p] = "wd_balance"
  /\ LET l == loc[p]
     IN IF l.user \notin users THEN Finish(p, l, "404")
        ELSE Goto(p, [l EXCEPT !.available = balance[l.user]], "wd_totals")
  /\ UNCHANGED <<db, creditLog>>

\* totalProfit = planProfit + referralProfit; a larger amount is refused
submitWithdrawal_totals(p) ==
  /\ pc[p] = "wd_totals"
  /\ LET l == loc[p]
         totalProfit == PlanProfit(plans, l.user) + ReferralProfit(l.user)
     IN IF l.amount > totalProfit
        THEN Finish(p, [l EXCEPT !.total = totalProfit], "400")
        ELSE Goto(p, [l EXCEPT !.total = totalProfit], "wd_tx")
  /\ UNCHANGED <<db, creditLog>>

\* the transaction, its read: when a top-up is needed, findMany of the
\* user's rows with profit > 0
submitWithdrawal_tx(p) ==
  /\ pc[p] = "wd_tx"
  /\ LET l == loc[p]
     IN Goto(p, [l EXCEPT !.rows = IF NeededTopUp(l.amount, l.available) > 0
                                   THEN plans ELSE <<>>], "wd_write")
  /\ UNCHANGED <<db, creditLog>>

\* the writes of the transaction: the top-up drawn from the plan rows and
\* added to the balance, the debit, the Withdrawal row. The decrements and
\* increments are applied to the rows as they are at the write
submitWithdrawal_write(p) ==
  /\ pc[p] = "wd_write"
  /\ LET l == loc[p]
         neededTopUp == NeededTopUp(l.amount, l.available)
     IN /\ plans' = IF neededTopUp > 0 THEN DrainProfit(plans, l.rows, l.user, 1, neededTopUp)
                    ELSE plans
        /\ balance' = [balance EXCEPT ![l.user] = @ + neededTopUp - l.amount]
        /\ withdrawals' = Append(withdrawals,
              [userId |-> l.user, amount |-> l.amount, currency |-> l.currency,
               recipientAddress |-> l.address, status |-> "pending"])
        /\ Finish(p, [l EXCEPT !.dep = Len(withdrawals) + 1, !.rows = <<>>], "201")
  /\ UNCHANGED <<users, referralCode, referredById, referredByCode, referralCount,
                 totalEarned, deposits, rewards, creditLog>>

\* a failure that keeps the debit of the transaction
submitWithdrawal_fail_noRollback(p) ==
  /\ pc[p] = "wd_write"
  /\ balance' = [balance EXCEPT ![loc[p].user] = @ - loc[p].amount]
  /\ Finish(p, [loc[p] EXCEPT !.rows = <<>>], "500")
  /\ UNCHANGED <<users, referralCode, referredById, referredByCode, referralCount,
                 totalEarned, deposits, plans, rewards, withdrawals, creditLog>>

\* a statement of the transaction throws: $transaction rolls every write
\* back and the catch of the handler answers 500
submitWithdrawal_fail(p) ==
  /\ pc[p] = "wd_write"
  /\ Finish(p, [loc[p] EXCEPT !.rows = <<>>], "500")
  /\ UNCHANGED <<db, creditLog>>

\* ------------------------------------------------------------------ reward engine
\* registered users with distinct codes; every user but the first was
\* referred by the first; no deposit yet
Code(n) == <<"A", "A", "A", "A", "A", "A", "A", n>>
CodeOfUser(u) == Code(IF u = 1 THEN "0" ELSE IF u = 2 THEN "1" ELSE IF u = 3 THEN "2" ELSE "3")

Init ==
  /\ users = Users
  /\ referralCode = [u \in Users |-> CodeOfUser(u)]
  /\ referredById = [u \in Users |-> IF u = 1 THEN NoUser ELSE 1]
  /\ referredByCode = [u \in Users |-> IF u = 1 THEN NoCode ELSE CodeOfUser(1)]
  /\ referralCount = [u \in Users |-> IF u = 1 THEN NumUsers - 1 ELSE 0]
  /\ balance = [u \in Users |-> 0]
  /\ totalEarned = [u \in Users |-> 0]
  /\ deposits = <<>>
  /\ plans = <<>>
  /\ rewards = <<>>
  /\ withdrawals = <<>>
  /\ creditLog = <<>>
  /\ pc = [p \in Procs |-> "idle"]
  /\ loc = [p \in Procs |-> NoLoc]

\* the amounts a request may carry: two plans, a whole amount that is no
\* plan, an amount with cents, and a missing amount
Amounts == {10000, 25000, 99900, 10050, 0}
RewardIds == 0..MaxRewards
\* one request at a time
Sequential == {1}

StepOf(ProcSet, AmountSet, UserSet) ==
  \/ \E p \in ProcSet, u \in UserSet, amt \in AmountSet, cur \in Currencies, h \in Hashes :
       submitDeposit_begin(p, u, amt, cur, h)
  \/ \E p \in ProcSet : submitDeposit_tx(p)
  \/ \E p \in ProcSet, u \in UserSet, amt \in AmountSet, cur \in Currencies, h \in Hashes :
       submitDeposit5_begin(p, u, amt, cur, h)
  \/ \E p \in ProcSet : submitDeposit5_create(p)
  \/ \E p \in ProcSet, u \in UserSet, amt \in AmountSet, cur \in Currencies, h \in Hashes :
       confirmDeposit_begin(p, u, amt, cur, h)
  \/ \E p \in ProcSet : confirmDeposit_tx(p)
  \/ \E p \in ProcSet : confirmDeposit_reward(p)
  \/ \E p \in ProcSet : confirmDeposit_reward_fail(p)
  \/ \E p \in ProcSet, u \in UserSet, amt \in AmountSet, cur \in Currencies, h \in Hashes :
       confirmDeposit7_begin(p, u, amt, cur, h)
  \/ \E p \in ProcSet : confirmDeposit7_tx(p)
  \/ \E p \in ProcSet : confirmDeposit7_reward(p)
  \/ \E p \in ProcSet, u \in UserSet, amt \in AmountSet, cur \in Currencies, h \in Hashes :
       confirmDeposit6_begin(p, u, amt, cur, h)
  \/ \E p \in ProcSet : confirmDeposit6_tx(p)
  \/ \E p \in ProcSet : confirmDeposit6_write(p)
  \/ \E p \in ProcSet : confirmDeposit6_payout(p)
  \/ \E p \in ProcSet, u \in UserSet : processReferralReward_call(p, u)
  \/ \E p \in ProcSet, rid \in RewardIds : approveReferralReward_call(p, rid)
  \/ \E p \in ProcSet : approveReferralReward_read(p)
  \/ \E p \in ProcSet : approveReferralReward_write(p)
  \/ \E p \in ProcSet, role \in Roles, rid \in RewardIds : approveRoute_begin(p, role, rid)
  \/ \E p \in ProcSet : approveRoute_write(p)
  \/ \E p \in ProcSet, u \in UserSet : allProgress_read(p, u)
  \/ \E p \in ProcSet : allProgress_credit(p)
  \/ \E p \in ProcSet : allProgress_summary(p)
  \/ \E p \in ProcSet : Return(p)

Step(AmountSet, UserSet) == StepOf(Sequential, AmountSet, UserSet)

Next == Step(Amounts, Users)

Spec == Init /\ [][Next]_vars

\* ------------------------------------------------------------------ every plan
\* the same engine with every plan of the table among the amounts, for the
\* requests of the referred user
AllAmounts == allowedPlans \cup {99900, 10050, 7500, 0}
NextTiers == Step(AllAmounts, {2})
SpecTiers == Init /\ [][NextTiers]_vars

\* ------------------------------------------------------------------ deposits side by side
\* the requests of one referred user, two at a time, with the first plan
\* or no amount
DepositAmounts == {10000, 0}
Depositors == {2}
NextDeposits == StepOf(Procs, DepositAmounts, Depositors)
SpecDeposits == Init /\ [][NextDeposits]_vars

\* ------------------------------------------------------------------ part_005 with part_006
\* the submission of part_005 and the confirmation of part_006, two
\* requests at a time, for two referred users
ConfirmAmounts == {10000, 25000, 0}
Confirmers == {2, 3}
NextConfirm6 ==
  \/ \E p \in Procs, u \in Confirmers, amt \in ConfirmAmounts, cur \in Currencies, h \in Hashes :
       submitDeposit5_begin(p, u, amt, cur, h)
  \/ \E p \in Procs : submitDeposit5_create(p)
  \/ \E p \in Procs, u \in Confirmers, amt \in ConfirmAmounts, cur \in Currencies, h \in Hashes :
       confirmDeposit6_begin(p, u, amt, cur, h)
  \/ \E p \in Procs : confirmDeposit6_tx(p)
  \/ \E p \in Procs : confirmDeposit6_write(p)
  \/ \E p \in Procs : confirmDeposit6_payout(p)
  \/ \E p \in Procs : Return(p)
SpecConfirm6 == Init /\ [][NextConfirm6]_vars

\* the same, where a request that has started runs to its end: a handler
\* awaits each of its statements and nothing cancels it
SpecConfirm6Live ==
  /\ Init
  /\ [][NextConfirm6]_vars
  /\ \A p \in Procs :
       /\ WF_vars(submitDeposit5_create(p))
       /\ WF_vars(confirmDeposit6_tx(p))
       /\ WF_vars(confirmDeposit6_write(p))
       /\ WF_vars(confirmDeposit6_payout(p))
       /\ WF_vars(Return(p))

\* ------------------------------------------------------------------ approval and reconciliation
\* the engine after each referred user confirmed a first deposit through
\* part_007 (an approved deposit, the credit, the plan and a pending reward
\* for the referrer), with requests in flight side by side
ReconPlan(u) == IF u % 2 = 0 THEN 10000 ELSE 25000
Referred == Users \ {1}

InitRecon ==
  /\ users = Users
  /\ referralCode = [u \in Users |-> CodeOfUser(u)]
  /\ referredById = [u \in Users |-> IF u = 1 THEN NoUser ELSE 1]
  /\ referredByCode = [u \in Users |-> IF u = 1 THEN NoCode ELSE CodeOfUser(1)]
  /\ referralCount = [u \in Users |-> IF u = 1 THEN NumUsers - 1 ELSE 0]
  /\ balance = [u \in Users |-> IF u = 1 THEN 0 ELSE ReconPlan(u)]
  /\ totalEarned = [u \in Users |-> IF u = 1 THEN 0 ELSE ReconPlan(u)]
  /\ deposits = [i \in 1..Cardinality(Referred) |->
        NewDeposit(i + 1, ReconPlan(i + 1), "USDT", "tx1", "approved", TRUE)]
  /\ plans = [i \in 1..Cardinality(Referred) |-> NewPlan(i + 1, ReconPlan(i + 1))]
  /\ rewards = [i \in 1..Cardinality(Referred) |->
        NewReward(1, i + 1, RewardLookup(ReconPlan(i + 1)), ReconPlan(i + 1))]
  /\ withdrawals = <<>>
  /\ creditLog = [i \in 1..Cardinality(Referred) |-> NoCredit("processReferralReward")]
  /\ pc = [p \in Procs |-> "idle"]
  /\ loc = [p \in Procs |-> NoLoc]

\* the ids an approve request may name: none, the rewards, and one too many
ReconRewardIds == 0..NumUsers

NextRecon ==
  \/ \E p \in Procs, rid \in ReconRewardIds : approveReferralReward_call(p, rid)
  \/ \E p \in Procs : approveReferralReward_read(p)
  \/ \E p \in Procs : approveReferralReward_write(p)
  \/ \E p \in Procs, role \in Roles, rid \in ReconRewardIds : approveRoute_begin(p, role, rid)
  \/ \E p \in Procs : approveRoute_write(p)
  \/ \E p \in Procs, u \in Users : allProgress_read(p, u)
  \/ \E p \in Procs : allProgress_credit(p)
  \/ \E p \in Procs : allProgress_summary(p)
  \/ \E p \in Procs : Return(p)

SpecRecon == InitRecon /\ [][NextRecon]_vars

\* ------------------------------------------------------------------ both kinds of reward
\* the same, where the reward of the last referred user is of the kind
\* lib/referral.ts tells apart by its planType, "Referred User Bonus"
BonusLabel == [label |-> "Referred User Bonus", plan |-> 0, credited |-> 0]

InitApprove ==
  /\ users = Users
  /\ referralCode = [u \in Users |-> CodeOfUser(u)]
  /\ referredById = [u \in Users |-> IF u = 1 THEN NoUser ELSE 1]
  /\ referredByCode = [u \in Users |-> IF u = 1 THEN NoCode ELSE CodeOfUser(1)]
  /\ referralCount = [u \in Users |-> IF u = 1 THEN NumUsers - 1 ELSE 0]
  /\ balance = [u \in Users |-> IF u = 1 THEN 0 ELSE ReconPlan(u)]
  /\ totalEarned = [u \in Users |-> IF u = 1 THEN 0 ELSE ReconPlan(u)]
  /\ deposits = [i \in 1..Cardinality(Referred) |->
        NewDeposit(i + 1, ReconPlan(i + 1), "USDT", "tx1", "approved", TRUE)]
  /\ plans = [i \in 1..Cardinality(Referred) |-> NewPlan(i + 1, ReconPlan(i + 1))]
  /\ rewards = [i \in 1..Cardinality(Referred) |->
        IF i + 1 = NumUsers
        THEN [NewReward(1, i + 1, RewardLookup(ReconPlan(i + 1)), ReconPlan(i + 1))
                EXCEPT !.planType = BonusLabel]
        ELSE NewReward(1, i + 1, RewardLookup(ReconPlan(i + 1)), ReconPlan(i + 1))]
  /\ withdrawals = <<>>
  /\ creditLog = [i \in 1..Cardinality(Referred) |-> NoCredit("processReferralReward")]
  /\ pc = [p \in Procs |-> "idle"]
  /\ loc = [p \in Procs |-> NoLoc]

SpecApprove == InitApprove /\ [][NextRecon]_vars

\* ------------------------------------------------------------------ a rejected reward
\* the same, where the reward of the last referred user has the status
\* 'rejected' (ReferralDashboard.tsx lists it among the statuses of a reward)
InitRejected ==
  /\ users = Users
  /\ referralCode = [u \in Users |-> CodeOfUser(u)]
  /\ referredById = [u \in Users |-> IF u = 1 THEN NoUser ELSE 1]
  /\ referredByCode = [u \in Users |-> IF u = 1 THEN NoCode ELSE CodeOfUser(1)]
  /\ referralCount = [u \in Users |-> IF u = 1 THEN NumUsers - 1 ELSE 0]
  /\ balance = [u \in Users |-> IF u = 1 THEN 0 ELSE ReconPlan(u)]
  /\ totalEarned = [u \in Users |-> IF u = 1 THEN 0 ELSE ReconPlan(u)]
  /\ deposits = [i \in 1..Cardinality(Referred) |->
        NewDeposit(i + 1, ReconPlan(i + 1), "USDT", "tx1", "approved", TRUE)]
  /\ plans = [i \in 1..Cardinality(Referred) |-> NewPlan(i + 1, ReconPlan(i + 1))]
  /\ rewards = [i \in 1..Cardinality(Referred) |->
        IF i + 1 = NumUsers
        THEN [NewReward(1, i + 1, RewardLookup(ReconPlan(i + 1)), ReconPlan(i + 1))
                EXCEPT !.status = "rejected"]
        ELSE NewReward(1, i + 1, RewardLookup(ReconPlan(i + 1)), ReconPlan(i + 1))]
  /\ withdrawals = <<>>
  /\ creditLog = [i \in 1..Cardinality(Referred) |-> NoCredit("processReferralReward")]
  /\ pc = [p \in Procs |-> "idle"]
  /\ loc = [p \in Procs |-> NoLoc]

SpecRejected == InitRejected /\ [][NextRecon]_vars

\* ------------------------------------------------------------------ withdrawal
\* the engine after the first deposits, with the rounds going on, the
\* rewards being approved, and the users reading their summary and
\* withdrawing; the amounts asked for: none, a negative one, the reward of
\* the first plan, and the first plan
WithdrawAmounts == {0, -100, 400, 10000}
Withdrawers == {1, 2}

NextWithdraw ==
  \/ \E i \in 1..MaxDeposits, flag \in BOOLEAN : accrueProfit(i, flag)
  \/ \E p \in Sequential, u \in Withdrawers, amt \in WithdrawAmounts,
        cur \in Currencies, addr \in Addresses : submitWithdrawal_begin(p, u, amt, cur, addr)
  \/ \E p \in Sequential : submitWithdrawal_balance(p)
  \/ \E p \in Sequential : submitWithdrawal_totals(p)
  \/ \E p \in Sequential : submitWithdrawal_tx(p)
  \/ \E p \in Sequential : submitWithdrawal_write(p)
  \/ \E p \in Sequential : submitWithdrawal_fail(p)
  \/ \E p \in Sequential, role \in Roles, rid \in ReconRewardIds : approveRoute_begin(p, role, rid)
  \/ \E p \in Sequential : approveRoute_write(p)
  \/ \E p \in Sequential, u \in Withdrawers : allProgress_read(p, u)
  \/ \E p \in Sequential : allProgress_credit(p)
  \/ \E p \in Sequential : allProgress_summary(p)
  \/ \E p \in Sequential, u \in Withdrawers : allProgress1_summary(p, u)
  \/ \E p \in Sequential, u \in Withdrawers : allProgress3_summary(p, u)
  \/ \E p \in Sequential, u \in Withdrawers : allProgress4_summary(p, u)
  \/ \E p \in Sequential : Return(p)

SpecWithdraw == InitRecon /\ [][NextWithdraw]_vars

\* ------------------------------------------------------------------ withdrawals side by side
\* the same engine with two withdrawals at a time, of the reward of the
\* first plan or of the first plan
RaceAmounts == {400, 10000}

NextWithdrawRace ==
  \/ \E i \in 1..MaxDeposits, flag \in BOOLEAN : accrueProfit(i, flag)
  \/ \E p \in Procs, u \in Withdrawers, amt \in RaceAmounts,
        cur \in Currencies : submitWithdrawal_begin(p, u, amt, cur, "addr1")
  \/ \E p \in Procs : submitWithdrawal_balance(p)
  \/ \E p \in Procs : submitWithdrawal_totals(p)
  \/ \E p \in Procs : submitWithdrawal_tx(p)
  \/ \E p \in Procs : submitWithdrawal_write(p)
  \/ \E p \in Procs : submitWithdrawal_fail(p)
  \/ \E p \in Sequential, rid \in ReconRewardIds : approveRoute_begin(p, "admin", rid)
  \/ \E p \in Sequential : approveRoute_write(p)
  \/ \E p \in Procs : Return(p)

SpecWithdrawRace == InitRecon /\ [][NextWithdrawRace]_vars

\* ------------------------------------------------------------------ the ledger
\* every handler that writes balance or totalEarned, one request at a
\* time: the deposits of one referred user, the approvals, the
\* reconciliation for the user and for the referrer, the rounds and the
\* withdrawals
NextLedger ==
  \/ StepOf(Sequential, DepositAmounts, Depositors)
  \/ \E p \in Sequential : allProgress_read(p, 1)
  \/ \E i \in 1..MaxDeposits, flag \in BOOLEAN : accrueProfit(i, flag)
  \/ \E p \in Sequential, u \in Withdrawers, amt \in RaceAmounts,
        cur \in Currencies : submitWithdrawal_begin(p, u, amt, cur, "addr1")
  \/ \E p \in Sequential : submitWithdrawal_balance(p)
  \/ \E p \in Sequential : submitWithdrawal_totals(p)
  \/ \E p \in Sequential : submitWithdrawal_tx(p)
  \/ \E p \in Sequential : submitWithdrawal_write(p)
  \/ \E p \in Sequential : submitWithdrawal_fail(p)

SpecLedger == Init /\ [][NextLedger]_vars


\* ------------------------------------------------------------------ referral codes
\* a code is the sequence of its characters
MaxCount == 1
CodeLength == 8
maxAttempts == 10
Digits == {"0", "1", "2", "3", "4", "5", "6", "7", "8", "9"}
UpperLetters == {"A", "B", "C", "D", "E", "F", "G", "H", "I", "J", "K", "L", "M",
                 "N", "O", "P", "Q", "R", "S", "T", "U", "V", "W", "X", "Y", "Z"}
LowerToUpper ==
  ("a" :> "A") @@ ("b" :> "B") @@ ("c" :> "C") @@ ("d" :> "D") @@ ("e" :> "E") @@
  ("f" :> "F") @@ ("g" :> "G") @@ ("h" :> "H") @@ ("i" :> "I") @@ ("j" :> "J") @@
  ("k" :> "K") @@ ("l" :> "L") @@ ("m" :> "M") @@ ("n" :> "N") @@ ("o" :> "O") @@
  ("p" :> "P") @@ ("q" :> "Q") @@ ("r" :> "R") @@ ("s" :> "S") @@ ("t" :> "T") @@
  ("u" :> "U") @@ ("v" :> "V") @@ ("w" :> "W") @@ ("x" :> "X") @@ ("y" :> "Y") @@
  ("z" :> "Z")

\* /^[A-Z0-9]{8}$/.test(code)
ValidCode(c) ==
  Len(c) = CodeLength /\ \A i \in 1..Len(c) : c[i] \in Digits \cup UpperLetters

\* code.toUpperCase()
toUpperCase(c) ==
  [i \in 1..Len(c) |-> IF c[i] \in DOMAIN LowerToUpper THEN LowerToUpper[c[i]] ELSE c[i]]

\* the codes generateReferralCode returns here: eight characters of its
\* alphabet, the last one drawn from two
GenLast == {"0", "1"}
generateReferralCode == {Code(n) : n \in GenLast}

\* a code of the former scheme (a UUID), and the codes a request may supply:
\* none, a generated code as stored, and one in lower case
LegacyCode == <<"a", "1", "b", "2", "-", "c", "3", "d">>
LowerCode == <<"a", "a", "a", "a", "a", "a", "a", "0">>
SuppliedCodes == {NoCode, Code("1"), LowerCode}

UniqueViolation_none(u, code) == FALSE

\* User.referralCode is unique in the schema (it is looked up with
\* findUnique): an update that would give a user the code of another fails
UniqueViolation(u, code) == \E v \in users \ {u} : referralCode[v] = code

MoneyUnchanged ==
  UNCHANGED <<balance, totalEarned, deposits, plans, rewards, withdrawals, creditLog>>

\* ------------------------------------------------------------------ getOrCreateUserReferralCode
getOrCreateUserReferralCode_call(p, u) ==
  /\ pc[p] = "idle"
  /\ Goto(p, [NoLoc EXCEPT !.op = "getOrCreateUserReferralCode", !.user = u], "goc_read")
  /\ UNCHANGED <<db, creditLog>>

\* findUnique of the user; a valid code is returned as it is
getOrCreateUserReferralCode_read(p) ==
  /\ pc[p] = "goc_read"
  /\ LET l == loc[p]
     IN IF l.user \notin users THEN Finish(p, l, "throw")
        ELSE IF referralCode[l.user] # NoCode /\ ValidCode(referralCode[l.user])
        THEN Finish(p, [l EXCEPT !.code = referralCode[l.user]], "ok")
        ELSE Goto(p, [l EXCEPT !.attempts = 0], "goc_check")
  /\ UNCHANGED <<db, creditLog>>

NextAttempt_noLimit(p, l) ==
  Goto(p, [l EXCEPT !.attempts = @ + 1, !.code = NoCode], "goc_check")

\* attempts++ and the loop condition: another attempt, or the final throw
NextAttempt(p, l) ==
  IF l.attempts + 1 < maxAttempts
  THEN Goto(p, [l EXCEPT !.attempts = @ + 1, !.code = NoCode], "goc_check")
  ELSE Finish(p, [l EXCEPT !.attempts = @ + 1, !.code = NoCode], "throw")

\* one attempt up to the update: a fresh code, and inside the transaction
\* findFirst({ referralCode: code }); a taken code ends the attempt
getOrCreateUserReferralCode_check(p, code) ==
  /\ pc[p] = "goc_check"
  /\ LET l == loc[p]
     IN IF \E v \in users : referralCode[v] = code
        THEN NextAttempt(p, l)
        ELSE Goto(p, [l EXCEPT !.code = code], "goc_update")
  /\ UNCHANGED <<db, creditLog>>

\* the update of the transaction; an error is caught and ends the attempt
getOrCreateUserReferralCode_update(p) ==
  /\ pc[p] = "goc_update"
  /\ LET l == loc[p]
     IN IF UniqueViolation(l.user, l.code)
        THEN NextAttempt(p, l) /\ UNCHANGED referralCode
        ELSE /\ referralCode' = [referralCode EXCEPT ![l.user] = l.code]
             /\ Finish(p, l, "ok")
  /\ UNCHANGED <<users, referredById, referredByCode, referralCount>>
  /\ MoneyUnchanged

\* ------------------------------------------------------------------ referrals/stats
\* the stats GET from the lookup of the user's code on
stats_read(p, u) ==
  /\ pc[p] = "idle"
  /\ u \in users
  /\ LET l == [NoLoc EXCEPT !.op = "stats", !.user = u]
     IN IF referralCode[u] # NoCode
        THEN Finish(p, [l EXCEPT !.code = referralCode[u]], "200")
        ELSE Goto(p, l, "stats_update")
  /\ UNCHANGED <<db, creditLog>>

\* user.update({ data: { referralCode } }) with a fresh code
stats_update(p, code) ==
  /\ pc[p] = "stats_update"
  /\ LET l == loc[p]
     IN IF UniqueViolation(l.user, code)
        THEN Finish(p, l, "500") /\ UNCHANGED referralCode
        ELSE /\ referralCode' = [referralCode EXCEPT ![l.user] = code]
             /\ Finish(p, [l EXCEPT !.code = code], "200")
  /\ UNCHANGED <<users, referredById, referredByCode, referralCount>>
  /\ MoneyUnchanged

\* ------------------------------------------------------------------ processReferral
AfterReferral_failOnNull(p, l, result) ==
  IF result = "null" THEN Finish(p, l, "500")
  ELSE IF l.op \in {"register", "register2"}
  THEN Goto(p, [l EXCEPT !.flag = TRUE], "goc_read")
  ELSE Finish(p, l, result)

AfterReferral_failOnThrow(p, l, result) ==
  IF result = "throw" THEN Finish(p, l, "500")
  ELSE IF l.op \in {"register", "register2"}
  THEN Goto(p, [l EXCEPT !.flag = TRUE], "goc_read")
  ELSE Finish(p, l, result)

\* after the attribution of a registration the code generation is started
AfterReferral(p, l, result) ==
  IF l.op \in {"register", "register2"}
  THEN Goto(p, [l EXCEPT !.flag = TRUE], "goc_read")
  ELSE Finish(p, l, result)

FindReferrer_anyUser(u, code) ==
  {v \in users : referralCode[v] = toUpperCase(code)}

\* user.findFirst({ referralCode: code.toUpperCase(), id: { not: userId } })
FindReferrer(u, code) ==
  {v \in users : referralCode[v] = toUpperCase(code) /\ v # u}

processReferral_call(p, u, code) ==
  /\ pc[p] = "idle"
  /\ u \in users
  /\ \A v \in Users : referralCount[v] < MaxCount
  /\ LET l == [NoLoc EXCEPT !.op = "processReferral", !.user = u, !.code = code]
     IN IF code = NoCode THEN Finish(p, l, "null") ELSE Goto(p, l, "pr_find")
  /\ UNCHANGED <<db, creditLog>>

processReferral_find(p) ==
  /\ pc[p] = "pr_find"
  /\ LET l == loc[p]
     IN IF FindReferrer(l.user, l.code) = {}
        THEN AfterReferral(p, l, "null")
        ELSE \E r \in FindReferrer(l.user, l.code) : Goto(p, [l EXCEPT !.ref = r], "pr_set")
  /\ UNCHANGED <<db, creditLog>>

\* referredByCode and referredById of the referred user
processReferral_set(p) ==
  /\ pc[p] = "pr_set"
  /\ LET l == loc[p]
     IN /\ referredByCode' = [referredByCode EXCEPT ![l.user] = toUpperCase(l.code)]
        /\ referredById' = [referredById EXCEPT ![l.user] = l.ref]
        /\ Goto(p, l, "pr_count")
  /\ UNCHANGED <<users, referralCode, referralCount>>
  /\ MoneyUnchanged

processReferral_count_withReward(p) ==
  /\ pc[p] = "pr_count"
  /\ LET l == loc[p]
     IN /\ referralCount' = [referralCount EXCEPT ![l.ref] = @ + 1]
        /\ rewards' = Append(rewards, NewReward(l.ref, l.user, 0, 0))
        /\ AfterReferral(p, l, "ok")
  /\ UNCHANGED <<users, referralCode, referredById, referredByCode,
                 balance, totalEarned, deposits, plans, withdrawals, creditLog>>

\* referralCount: { increment: 1 } of the referrer
processReferral_count(p) ==
  /\ pc[p] = "pr_count"
  /\ LET l == loc[p]
     IN /\ referralCount' = [referralCount EXCEPT ![l.ref] = @ + 1]
        /\ AfterReferral(p, l, "ok")
  /\ UNCHANGED <<users, referralCode, referredById, referredByCode>>
  /\ MoneyUnchanged

\* ------------------------------------------------------------------ register
\* user.create: the next id, every other column at its default
NextUserId == Cardinality(users) + 1

\* register/route.ts: the user, then processReferral when a code was given
register_create(p, code) ==
  /\ pc[p] = "idle"
  /\ NextUserId \in Users
  /\ users' = users \cup {NextUserId}
  /\ LET l == [NoLoc EXCEPT !.op = "register", !.user = NextUserId, !.code = code]
     IN IF code # NoCode THEN Goto(p, l, "pr_find")
        ELSE Goto(p, [l EXCEPT !.flag = TRUE], "goc_read")
  /\ UNCHANGED <<referralCode, referredById, referredByCode, referralCount>>
  /\ MoneyUnchanged

\* part_002: the user, then the referrer is looked up in the handler itself
register2_create(p, code) ==
  /\ pc[p] = "idle"
  /\ NextUserId \in Users
  /\ users' = users \cup {NextUserId}
  /\ LET l == [NoLoc EXCEPT !.op = "register2", !.user = NextUserId, !.code = code]
     IN IF code # NoCode THEN Goto(p, l, "reg2_find")
        ELSE Goto(p, [l EXCEPT !.flag = TRUE], "goc_read")
  /\ UNCHANGED <<referralCode, referredById, referredByCode, referralCount>>
  /\ MoneyUnchanged

register2_find(p) ==
  /\ pc[p] = "reg2_find"
  /\ LET l == loc[p]
     IN IF FindReferrer(l.user, l.code) = {}
        THEN AfterReferral(p, l, "null")
        ELSE \E r \in FindReferrer(l.user, l.code) : Goto(p, [l EXCEPT !.ref = r], "reg2_set")
  /\ UNCHANGED <<db, creditLog>>

\* referredByCode and referredById; no referralCount here
register2_set(p) ==
  /\ pc[p] = "reg2_set"
  /\ LET l == loc[p]
     IN /\ referredByCode' = [referredByCode EXCEPT ![l.user] = toUpperCase(l.code)]
        /\ referredById' = [referredById EXCEPT ![l.user] = l.ref]
        /\ AfterReferral(p, l, "ok")
  /\ UNCHANGED <<users, referralCode, referralCount>>
  /\ MoneyUnchanged

\* a query of the attribution rejects: the handler's catch logs the error
\* and the registration goes on; processReferral called alone throws
processReferral_throw(p) ==
  /\ pc[p] \in {"pr_find", "pr_set", "pr_count", "reg2_find", "reg2_set"}
  /\ AfterReferral(p, loc[p], "throw")
  /\ UNCHANGED <<db, creditLog>>

\* ------------------------------------------------------------------ registry
\* an empty database, or one user of the former scheme with a UUID code
InitCode ==
  /\ users \in {{}, {1}}
  /\ referralCode = [u \in Users |-> IF u \in users THEN LegacyCode ELSE NoCode]
  /\ referredById = [u \in Users |-> NoUser]
  /\ referredByCode = [u \in Users |-> NoCode]
  /\ referralCount = [u \in Users |-> 0]
  /\ balance = [u \in Users |-> 0]
  /\ totalEarned = [u \in Users |-> 0]
  /\ deposits = <<>>
  /\ plans = <<>>
  /\ rewards = <<>>
  /\ withdrawals = <<>>
  /\ creditLog = <<>>
  /\ pc = [p \in Procs |-> "idle"]
  /\ loc = [p \in Procs |-> NoLoc]

NextCode ==
  \/ \E p \in Sequential, code \in SuppliedCodes : register_create(p, code)
  \/ \E p \in Sequential, code \in SuppliedCodes : register2_create(p, code)
  \/ \E p \in Procs : register2_find(p)
  \/ \E p \in Procs : register2_set(p)
  \/ \E p \in Sequential, u \in Users, code \in SuppliedCodes : processReferral_call(p, u, code)
  \/ \E p \in Procs : processReferral_find(p)
  \/ \E p \in Procs : processReferral_set(p)
  \/ \E p \in Procs : processReferral_count(p)
  \/ \E p \in Procs, u \in Users : getOrCreateUserReferralCode_call(p, u)
  \/ \E p \in Procs : getOrCreateUserReferralCode_read(p)
  \/ \E p \in Procs, code \in generateReferralCode : getOrCreateUserReferralCode_check(p, code)
  \/ \E p \in Procs : getOrCreateUserReferralCode_update(p)
  \/ \E p \in Procs, u \in Users : stats_read(p, u)
  \/ \E p \in Procs, code \in generateReferralCode : stats_update(p, code)
  \/ \E p \in Procs : Return(p)

SpecCode == InitCode /\ [][NextCode]_vars

\* registrations side by side, the queries of the attribution free to fail;
\* the code generation of one goes on while the next is handled
NextRegister ==
  \/ \E p \in Procs, code \in SuppliedCodes : register_create(p, code)
  \/ \E p \in Procs, code \in SuppliedCodes : register2_create(p, code)
  \/ \E p \in Procs : register2_find(p)
  \/ \E p \in Procs : register2_set(p)
  \/ \E p \in Procs : processReferral_find(p)
  \/ \E p \in Procs : processReferral_set(p)
  \/ \E p \in Procs : processReferral_count(p)
  \/ \E p \in Procs : processReferral_throw(p)
  \/ \E p \in Procs : getOrCreateUserReferralCode_read(p)
  \/ \E p \in Procs, code \in generateReferralCode : getOrCreateUserReferralCode_check(p, code)
  \/ \E p \in Procs : getOrCreateUserReferralCode_update(p)
  \/ \E p \in Procs : Return(p)

SpecRegister == InitCode /\ [][NextRegister]_vars

\* ------------------------------------------------------------------ code generation alone
\* three registered users: the first holds a generated code, the second a
\* UUID or none, the third none; they ask for their codes side by side, by
\* getOrCreateUserReferralCode and through the stats route.  A request that
\* has begun is run on: the event loop resumes every await
InitGen ==
  /\ users = Users
  /\ referralCode \in {[u \in Users |-> IF u = 1 THEN Code("0") ELSE IF u = 2 THEN c ELSE NoCode] :
                        c \in {LegacyCode, NoCode}}
  /\ referredById = [u \in Users |-> NoUser]
  /\ referredByCode = [u \in Users |-> NoCode]
  /\ referralCount = [u \in Users |-> 0]
  /\ balance = [u \in Users |-> 0]
  /\ totalEarned = [u \in Users |-> 0]
  /\ deposits = <<>>
  /\ plans = <<>>
  /\ rewards = <<>>
  /\ withdrawals = <<>>
  /\ creditLog = <<>>
  /\ pc = [p \in Procs |-> "idle"]
  /\ loc = [p \in Procs |-> NoLoc]

NextGen ==
  \/ \E p \in Procs, u \in Users : getOrCreateUserReferralCode_call(p, u)
  \/ \E p \in Procs : getOrCreateUserReferralCode_read(p)
  \/ \E p \in Procs, code \in generateReferralCode : getOrCreateUserReferralCode_check(p, code)
  \/ \E p \in Procs : getOrCreateUserReferralCode_update(p)
  \/ \E p \in Procs, u \in Users : stats_read(p, u)
  \/ \E p \in Procs, code \in generateReferralCode : stats_update(p, code)
  \/ \E p \in Procs : Return(p)

SpecGen ==
  /\ InitGen
  /\ [][NextGen]_vars
  /\ \A p \in Procs :
       /\ WF_vars(getOrCreateUserReferralCode_read(p))
       /\ WF_vars(\E code \in generateReferralCode : getOrCreateUserReferralCode_check(p, code))
       /\ WF_vars(getOrCreateUserReferralCode_update(p))
       /\ WF_vars(\E code \in generateReferralCode : stats_update(p, code))

\* ------------------------------------------------------------------ claims
\* C1: reconciliation is idempotent under concurrency: however many
\* account-summary requests for a referrer are interleaved, each of the
\* referrer's paid rewards is added to balance and totalEarned by the
\* reconciliation once, never a multiple of its amount.
C1_ReconciliationCreditsOnce ==
  \A i \in Ids(rewards) : creditLog[i].recon * rewards[i].amount <= rewards[i].amount

\* C2: exactly-once credit per reward across approval and reconciliation:
\* the total added to balance on account of a reward is its amount when it
\* is paid and 0 otherwise (approve 4, load the dashboard: 4, not 8).
C2_ExactlyOnceCredit ==
  \A i \in Ids(rewards) :
    (creditLog[i].approve + creditLog[i].recon) * rewards[i].amount
      = IF rewards[i].status = "paid" THEN rewards[i].amount ELSE 0

\* C3: approval is terminal: an approve of a reward whose status is paid
\* ends with an error and leaves the reward rows and every balance and
\* totalEarned unchanged.
ApproveOfPaid(p) ==
  \/ /\ pc[p] = "idle" /\ pc'[p] # "idle"
     /\ loc'[p].op = "approveRoute" /\ loc'[p].role = "admin"
     /\ loc'[p].rid \in Ids(rewards) /\ rewards[loc'[p].rid].status = "paid"
  \/ /\ pc[p] = "approveLib_read" /\ pc'[p] # "approveLib_read"
     /\ loc[p].rid \in Ids(rewards) /\ rewards[loc[p].rid].status = "paid"

C3_ApprovalIsTerminal ==
  [][\A p \in Procs : ApproveOfPaid(p) =>
        /\ pc'[p] = "done"
        /\ loc'[p].out \in {"500", "throw", "201"}
        /\ loc'[p].out = "201" => loc'[p].op = "confirmDeposit6"
        /\ rewards' = rewards /\ balance' = balance /\ totalEarned' = totalEarned
        /\ creditLog' = creditLog]_vars

C3_Witness ==
  \E p \in Procs :
    /\ pc[p] = "done" /\ loc[p].op = "approveRoute" /\ loc[p].out = "500"
    /\ loc[p].rid \in Ids(rewards) /\ rewards[loc[p].rid].status = "paid"

\* C4: in every reachable state at most one ReferralReward row of a
\* (referrerId, referredUserId) pair has status paid.
C4_AtMostOnePaidPerPair ==
  \A i, j \in Ids(rewards) :
    ( /\ rewards[i].referrerId = rewards[j].referrerId
      /\ rewards[i].referredUserId = rewards[j].referredUserId
      /\ rewards[i].status = "paid" /\ rewards[j].status = "paid" ) => i = j

\* C5: reward creation is idempotent: processReferralReward invoked twice
\* for the same referred user, with no approval in between, leaves one
\* pending reward row for the (referrer, user) pair, not two.
PendingCreatedFor(u) == {i \in Ids(rewards) :
  /\ rewards[i].referredUserId = u
  /\ rewards[i].referrerId = referredById[u]
  /\ rewards[i].status = "pending"
  /\ creditLog[i].by = "processReferralReward"}

C5_IdempotentRewardCreation ==
  \A u \in users : Cardinality(PendingCreatedFor(u)) <= 1

\* C6: tier correctness: every ReferralReward row, whatever path created
\* it, is for a plan of the table and has the amount the table gives for
\* that plan (50:2, 100:4, 150:6, 250:10, 500:20, 1000:40, 1500:60,
\* 2500:100); no row has amount 0.
C6_TierCorrectness ==
  \A i \in Ids(rewards) :
    /\ rewards[i].planAmount \in allowedPlans
    /\ rewards[i].amount > 0
    /\ rewards[i].amount = PLAN_REWARDS[rewards[i].planAmount \div 100] * 100

\* a deposit of 250 confirmed through confirm/route.ts gave a reward of 10
C6_Witness ==
  \E i \in Ids(rewards) :
    /\ creditLog[i].by = "confirmDeposit"
    /\ rewards[i].planAmount = 25000
    /\ rewards[i].amount = 1000

\* C7: a deposit submission or confirmation whose amount is no plan is
\* rejected and changes no state: no Deposit, UserPlanProgress or
\* ReferralReward row is created, no balance or totalEarned changes.
DepositOps == {"submitDeposit", "submitDeposit5", "confirmDeposit",
               "confirmDeposit6", "confirmDeposit7"}
BadAmountRequest(p) ==
  /\ pc[p] = "idle" /\ pc'[p] # "idle"
  /\ loc'[p].op \in DepositOps
  /\ loc'[p].amount \notin allowedPlans

C7_InvalidTierRejected ==
  [][\A p \in Procs : BadAmountRequest(p) =>
        /\ pc'[p] = "done" /\ loc'[p].out = "400"
        /\ deposits' = deposits /\ plans' = plans /\ rewards' = rewards
        /\ balance' = balance /\ totalEarned' = totalEarned]_vars

\* a submission of 999 by a user with no pending deposit was answered 400
C7_Witness ==
  \E p \in Procs :
    /\ pc[p] = "done" /\ loc[p].op = "submitDeposit" /\ loc[p].out = "400"
    /\ loc[p].amount = 99900 /\ loc[p].hash # "" /\ loc[p].currency # ""
    /\ ~HasPending(loc[p].user)

\* C8: the referral codes of the users are pairwise distinct, whichever
\* path generated them and however the generations interleave
C8_CodesPairwiseDistinct ==
  \A u \in users, v \in users :
    u # v /\ referralCode[u] # NoCode => referralCode[u] # referralCode[v]

\* two users hold generated codes, one from the stats path and one from
\* getOrCreateUserReferralCode
C8_Witness ==
  \E p \in Procs, q \in Procs :
    /\ pc[p] = "done" /\ loc[p].op = "stats" /\ loc[p].out = "200"
    /\ pc[q] = "done" /\ loc[q].op # "stats" /\ loc[q].out = "ok"
    /\ loc[p].user # loc[q].user
    /\ loc[p].code \in generateReferralCode /\ referralCode[loc[p].user] = loc[p].code
    /\ loc[q].code \in generateReferralCode /\ referralCode[loc[q].user] = loc[q].code

\* C9: a valid code of a user never changes, through no path and no
\* interleaving of the generations
C9_ValidCodeNeverChanges ==
  [][\A u \in Users :
       ValidCode(referralCode[u]) => referralCode'[u] = referralCode[u]]_vars

\* C10: a user is never their own referrer, and an attribution with the
\* user's own code finds no referrer and changes nothing
OwnCodeAttribution(p) ==
  /\ pc[p] \in {"pr_find", "reg2_find"}
  /\ loc[p].code # NoCode
  /\ toUpperCase(loc[p].code) = referralCode[loc[p].user]

C10_NoSelfReferral ==
  /\ [](\A u \in users : referredById[u] # u)
  /\ [][\A p \in Procs :
          OwnCodeAttribution(p) /\ pc'[p] # pc[p] =>
            /\ pc'[p] \notin {"pr_set", "reg2_set"} /\ loc'[p].ref = NoUser
            /\ loc[p].op = "processReferral" => pc'[p] = "done" /\ loc'[p].out = "null"
            /\ UNCHANGED db]_vars

\* processReferral has answered null to a user who supplied their own code,
\* in lower case
C10_Witness ==
  \E p \in Procs :
    /\ pc[p] = "done" /\ loc[p].op = "processReferral" /\ loc[p].out = "null"
    /\ loc[p].code = LowerCode
    /\ referralCode[loc[p].user] = toUpperCase(loc[p].code)
    /\ referredById[loc[p].user] = NoUser

\* C11: once a user's referredById is set, no attribution changes that user's
\* referredById or referredByCode again
C11_AttributionAtMostOnce ==
  [][\A u \in Users :
       referredById[u] # NoUser =>
         /\ referredById'[u] = referredById[u]
         /\ referredByCode'[u] = referredByCode[u]]_vars

\* C12: an accepted withdrawal of X by a user with balance B leaves the
\* balance at B - X when X <= B, and at 0 when X > B
C12_WithdrawalNetEffect ==
  [][\A p \in Procs :
       pc[p] = "wd_write" /\ pc'[p] = "done" /\ loc'[p].out = "201" =>
         LET u == loc[p].user
             X == loc[p].amount
             B == balance[u]
         IN balance'[u] = IF X <= B THEN B - X ELSE 0]_vars

\* a withdrawal larger than the balance was accepted and left the balance at 0
C12_Witness ==
  \E p \in Procs :
    /\ pc[p] = "done" /\ loc[p].op = "submitWithdrawal" /\ loc[p].out = "201"
    /\ loc[p].amount > loc[p].available
    /\ loc[p].available > 0
    /\ balance[loc[p].user] = 0

\* C13: a withdrawal of X is accepted exactly when X > 0 and X is at most
\* the totalProfit of the account summary: the balance after reconciliation
\* plus the profit of the user's plan rows
SummaryTotalProfit(u) ==
  balance[u]
  + SumOver(UncreditedPaid(u), [i \in UncreditedPaid(u) |-> rewards[i].amount])
  + PlanProfit(plans, u)

C13_WithdrawalBound ==
  [][\A p \in Procs :
       pc[p] = "wd_totals" /\ pc'[p] # pc[p] =>
         (pc'[p] = "wd_tx" <=>
            loc[p].amount > 0 /\ loc[p].amount <= SummaryTotalProfit(loc[p].user))]_vars

\* C16: the canWithdraw of the account summary is true exactly when the user
\* has a plan row with canWithdraw set, profit > 0 and roundCount > 0,
\* whatever the balance and the rewards
C16_CanWithdrawFromPlansOnly ==
  [][\A p \in Procs :
       pc[p] = "recon_summary" /\ pc'[p] = "done" =>
         (loc'[p].flag <=>
            \E i \in Ids(plans') :
              /\ plans'[i].userId = loc[p].user
              /\ plans'[i].canWithdraw
              /\ plans'[i].profit > 0
              /\ plans'[i].roundCount > 0)]_vars

\* the summary answered canWithdraw = false to a user with a balance whose
\* plan row has its flag set but no profit left
C16_Witness ==
  \E p \in Procs :
    /\ pc[p] = "done" /\ loc[p].op = "allProgress" /\ loc[p].out = "200"
    /\ ~loc[p].flag
    /\ balance[loc[p].user] > 0
    /\ \E i \in Ids(plans) : plans[i].userId = loc[p].user /\ plans[i].canWithdraw

\* C14: an approve request of a caller who is not an admin is answered
\* with 403 at once and changes no row
C14_ApproveNeedsAdmin ==
  [][\A p \in Procs :
       /\ pc[p] = "idle" /\ pc'[p] # "idle"
       /\ loc'[p].op = "approveRoute" /\ loc'[p].role # "admin"
       => pc'[p] = "done" /\ loc'[p].out = "403" /\ UNCHANGED db]_vars

\* a caller with the role user was refused the approval of a pending reward
C14_Witness ==
  \E p \in Procs :
    /\ pc[p] = "done" /\ loc[p].op = "approveRoute" /\ loc[p].out = "403"
    /\ loc[p].role = "user"
    /\ loc[p].rid \in Ids(rewards) /\ rewards[loc[p].rid].status = "pending"

\* the writes of an approval of the pending reward rid that credit user u
ApprovalCredits(p, u) ==
  LET rid == loc[p].rid
      r == rewards[rid]
  IN /\ rewards' = [rewards EXCEPT ![rid] = [r EXCEPT !.status = "paid", !.paidAt = TRUE]]
     /\ balance' = [balance EXCEPT ![u] = @ + r.amount]
     /\ totalEarned' = [totalEarned EXCEPT ![u] = @ + r.amount]

ApprovalOfPending(p) ==
  /\ pc[p] \in {"approve_write", "approveLib_write"} /\ pc'[p] = "done"
  /\ rewards[loc[p].rid].status = "pending"

C17_OnePendingDepositPerUser ==
  \A u \in Users :
    Cardinality({i \in Ids(deposits) :
      deposits[i].userId = u /\ deposits[i].status = "pending"}) <= 1

\* C18: a user never has two Deposit rows with status confirmed or approved
C18_SinglePlanPolicy ==
  \A u \in Users :
    Cardinality({i \in Ids(deposits) :
      deposits[i].userId = u /\ deposits[i].status \in {"confirmed", "approved"}}) <= 1

\* C19: code generation ends after at most maxAttempts attempts: with a
\* code that is then the user's stored code, or, once every attempt has
\* failed, with an error that leaves the user's code as it was
InGeneration(p) == pc[p] \in {"goc_read", "goc_check", "goc_update"}

C19_GenerationTerminates ==
  /\ [](\A p \in Procs :
         /\ loc[p].attempts <= maxAttempts
         /\ pc[p] \in {"goc_check", "goc_update"} => loc[p].attempts < maxAttempts)
  /\ [][\A p \in Procs :
          InGeneration(p) /\ (pc'[p] # pc[p] \/ loc'[p] # loc[p]) =>
            \/ /\ pc'[p] = "done" /\ loc'[p].out = "ok"
               /\ referralCode'[loc[p].user] = loc'[p].code
               /\ ValidCode(loc'[p].code)
            \/ /\ pc'[p] = "done" /\ loc'[p].out = "throw"
               /\ loc'[p].attempts = maxAttempts \/ loc[p].user \notin users
               /\ referralCode' = referralCode
            \/ /\ pc'[p] # "done"
               /\ referralCode' = referralCode]_vars
  /\ \A p \in Procs : InGeneration(p) ~> pc[p] = "done"

\* a call has given up after maxAttempts attempts, the user still without a code
C19_Witness ==
  \E p \in Procs :
    /\ pc[p] = "done" /\ loc[p].op = "getOrCreateUserReferralCode"
    /\ loc[p].out = "throw" /\ loc[p].attempts = maxAttempts
    /\ loc[p].user \in users
    /\ referralCode[loc[p].user] = NoCode

\* C20: a registration with a code that matches no other user's code goes
\* on: the user exists, the 201 is on its way, the user's referredById and
\* referredByCode stay unset and no referralCount changes
Registering(p) == loc[p].op \in {"register", "register2"}

C20_UnknownCodeDoesNotBlock ==
  /\ [][\A p \in Procs :
          /\ Registering(p) /\ pc[p] \in {"pr_find", "reg2_find"}
          /\ FindReferrer(loc[p].user, loc[p].code) = {}
          /\ pc'[p] # pc[p]
          => /\ pc'[p] = "goc_read" /\ loc'[p].flag
             /\ loc[p].user \in users'
             /\ UNCHANGED <<referredById, referredByCode, referralCount>>]_vars
  /\ [](\A p \in Procs :
          /\ Registering(p) /\ loc[p].code # NoCode /\ loc[p].ref = NoUser
          /\ pc[p] \in {"goc_read", "goc_check", "goc_update", "done"}
          => /\ loc[p].flag
             /\ referredById[loc[p].user] = NoUser
             /\ referredByCode[loc[p].user] = NoCode)

\* a registration that carried a code nobody holds is complete: the user
\* has a generated code of their own and no referrer
C20_Witness ==
  \E p \in Procs :
    /\ pc[p] = "done" /\ Registering(p) /\ loc[p].flag /\ loc[p].out = "ok"
    /\ loc[p].code # NoCode /\ loc[p].ref = NoUser
    /\ referredById[loc[p].user] = NoUser
    /\ \A v \in Users : referralCount[v] = 0

\* C21: attribution creates no reward and credits nothing: no step of a
\* registration or of processReferral changes a reward, a balance or a
\* totalEarned, and a user whose registration was attributed has no reward
AttributionStep(p) ==
  \/ pc[p] = "idle" /\ pc'[p] # "idle" /\ loc'[p].op \in {"register", "register2", "processReferral"}
  \/ pc[p] \in {"pr_find", "pr_set", "pr_count", "reg2_find", "reg2_set"} /\ pc'[p] # pc[p]

C21_AttributionCreatesNoReward ==
  /\ [][\A p \in Procs :
          AttributionStep(p) => UNCHANGED <<rewards, balance, totalEarned>>]_vars
  /\ [](\A p \in Procs :
          Registering(p) /\ loc[p].ref # NoUser /\ pc[p] \in {"goc_read", "done"} =>
            /\ \A i \in Ids(rewards) : rewards[i].referredUserId # loc[p].user
            /\ \A u \in Users : balance[u] = 0 /\ totalEarned[u] = 0)

\* a registration through register/route.ts was attributed to a referrer,
\* whose referralCount it raised
C21_Witness ==
  \E p \in Procs :
    /\ pc[p] = "done" /\ loc[p].op = "register" /\ loc[p].ref # NoUser
    /\ referredById[loc[p].user] = loc[p].ref
    /\ referralCount[loc[p].ref] = 1
    /\ rewards = <<>>

\* C22: a reward is created pending, and becomes paid only by an approve
\* operation (the admin route called by an admin, or approveReferralReward
\* called by itself), never within a user's deposit confirmation, which
\* credits no referrer either
ApproveStepOf(p, i) ==
  /\ pc[p] \in {"approve_write", "approveLib_write"} /\ pc'[p] = "done"
  /\ loc[p].rid = i
  /\ \/ loc[p].op = "approveRoute" /\ loc[p].role = "admin"
     \/ loc[p].op = "approveReferralReward"

C22_NeverAutoPaid ==
  [][/\ \A i \in Ids(rewards') :
          /\ i \notin Ids(rewards) => rewards'[i].status = "pending"
          /\ i \in Ids(rewards) /\ rewards[i].status # "paid" /\ rewards'[i].status = "paid"
             => \E p \in Procs : ApproveStepOf(p, i)
     /\ \A p \in Procs :
          loc[p].op \in {"confirmDeposit", "confirmDeposit6", "confirmDeposit7"}
          /\ pc'[p] # pc[p]
          => \A u \in Users \ {loc[p].user} : balance'[u] = balance[u]]_vars

\* C23: of two approve calls for one pending reward that both read it before
\* either writes, at most one succeeds and the reward is credited once: the
\* write step of the call that comes second finds the reward paid, fails
\* and credits nothing
ApproveWriteStep(p) ==
  /\ pc[p] \in {"approve_write", "approveLib_write"}
  /\ pc'[p] = "done"

C23_ConcurrentApproveCreditsOnce ==
  [][\A p \in Procs :
       ApproveWriteStep(p) /\ rewards[loc[p].rid].status = "paid"
       => /\ loc'[p].out \notin {"200", "201", "ok"}
          /\ UNCHANGED <<balance, totalEarned>>]_vars

\* C24: each deposit is credited exactly once: for any interleaving of the
\* confirmations of a user who refers nobody, balance and totalEarned of
\* the user are the sum of the amounts of the user's deposits that have
\* been confirmed
ConfirmedOf(u) == {i \in Ids(deposits) : deposits[i].userId = u /\ deposits[i].confirmedAt}
ConfirmedAmount(u) ==
  SumOver(ConfirmedOf(u), [i \in ConfirmedOf(u) |-> deposits[i].amount])

C24_DepositCreditedOnce ==
  \A u \in Confirmers :
    /\ balance[u] = ConfirmedAmount(u)
    /\ totalEarned[u] = ConfirmedAmount(u)

\* C25: in an accepted withdrawal of X the amount added to the balance as
\* top-up is the profit taken out of the user's plan rows, so the balance
\* plus the plan profit of the user after it is what it was before, less X
C25_TopUpComesFromPlans ==
  [][\A p \in Procs :
       pc[p] = "wd_write" /\ pc'[p] = "done" /\ loc'[p].out = "201" =>
         LET u == loc[p].user
             X == loc[p].amount
         IN /\ PlanProfit(plans, u) - PlanProfit(plans', u) = NeededTopUp(X, loc[p].available)
            /\ balance'[u] + PlanProfit(plans', u) = balance[u] + PlanProfit(plans, u) - X]_vars

\* C26: a withdrawal is all or nothing: when its transaction fails, the
\* balances, the plan rows and the Withdrawal rows are what they were; when
\* it succeeds, one Withdrawal row is added, pending, for the requested
\* amount of the user
C26_WithdrawalAllOrNothing ==
  [][\A p \in Procs :
       pc[p] = "wd_write" /\ pc'[p] = "done" =>
         IF loc'[p].out = "201"
         THEN /\ Len(withdrawals') = Len(withdrawals) + 1
              /\ withdrawals'[Len(withdrawals')].status = "pending"
              /\ withdrawals'[Len(withdrawals')].amount = loc[p].amount
              /\ withdrawals'[Len(withdrawals')].userId = loc[p].user
         ELSE UNCHANGED <<balance, plans, withdrawals>>]_vars

\* a withdrawal that needed a top-up from a plan with profit has failed
C26_Witness ==
  \E p \in Procs :
    /\ pc[p] = "done" /\ loc[p].op = "submitWithdrawal" /\ loc[p].out = "500"
    /\ loc[p].amount > loc[p].available
    /\ PlanProfit(plans, loc[p].user) >= loc[p].amount - loc[p].available

\* C27: the profit of a plan row is never negative, also when two
\* withdrawals of one user are interleaved: the drain takes from a row no
\* more than the profit the row has
C27_ProfitNeverNegative ==
  \A i \in Ids(plans) : plans[i].profit >= 0

\* C28: the balance of a user is never negative, also when each of two
\* withdrawals has read the balance before the debit of the other
C28_BalanceNeverNegative ==
  \A u \in Users : balance[u] >= 0

\* C29: the read paths agree: the totalProfit each account summary reports
\* and the totalProfit the withdrawal bounds the amount with are the
\* balance of the user after reconciliation plus the profit of the user's
\* plan rows
ReportsTotal(p) ==
  \/ pc[p] = "idle" /\ pc'[p] = "done"
     /\ loc'[p].op \in {"allProgress1", "allProgress3", "allProgress4"}
  \/ pc[p] = "recon_summary" /\ pc'[p] = "done"
  \/ pc[p] = "wd_totals" /\ pc'[p] # pc[p]

C29_ReadPathsAgree ==
  [][\A p \in Procs :
       ReportsTotal(p) =>
         LET u == loc'[p].user
             uncredited == {i \in Ids(rewards') :
                /\ rewards'[i].referrerId = u
                /\ rewards'[i].status = "paid"
                /\ ~EndsWithCredited(rewards'[i].planType)}
         IN loc'[p].total = balance'[u] + RewardSum(rewards', uncredited)
                            + PlanProfit(plans', u)]_vars

\* C30: only paid rewards count: the reconciliation adds to a balance the
\* amounts of paid rewards only, and the totalProfit a summary reports is
\* what it would report without the rewards that are not paid
PaidOnly(rws) == [i \in Ids(rws) |->
  IF rws[i].status = "paid" THEN rws[i] ELSE [rws[i] EXCEPT !.amount = 0]]

C30_OnlyPaidRewardsCount ==
  [][\A p \in Procs :
       /\ pc[p] = "recon_credit" /\ pc'[p] # pc[p] =>
            /\ \A i \in loc[p].seen : balance' # balance => rewards[i].status = "paid"
            /\ \A u \in Users : balance'[u] - balance[u] =
                 RewardSum(PaidOnly(rewards), {i \in loc[p].seen : rewards[i].referrerId = u})
       /\ pc[p] = "idle" /\ pc'[p] = "done" =>
            LET u == loc'[p].user
            IN /\ loc'[p].op = "allProgress1"
                    => loc'[p].total = totalProfit1(plans', PaidOnly(rewards'), u)
               /\ loc'[p].op = "allProgress3"
                    => loc'[p].total = totalProfit3(plans', PaidOnly(rewards'), u)
               /\ loc'[p].op = "allProgress4"
                    => loc'[p].total = totalProfit4(plans', PaidOnly(rewards'), u)]_vars

\* C31: an approve of a reward id that does not exist, or of a reward whose
\* status is rejected, ends with an error and credits no balance, and a
\* rejected reward never becomes paid
ApproveRequest(p) == loc'[p].op \in {"approveRoute", "approveReferralReward"}
NotApprovable(rid) == rid \notin Ids(rewards) \/ rewards[rid].status = "rejected"

Referrals(u) == {v \in users : referredById[v] = u}

C32_ReferralCountMatches ==
  /\ []((\A p \in Procs : pc[p] # "pr_count") =>
          \A u \in Users : referralCount[u] = Cardinality(Referrals(u)))
  /\ [][\A u \in Users : referralCount'[u] >= referralCount[u]]_vars

\* C33: totalEarned of a user never decreases; a step that is not the
\* write of a withdrawal changes balance and totalEarned of each user by
\* the same amount, and the write of a withdrawal leaves totalEarned as it is
WithdrawalWrite == \E p \in Procs : pc[p] = "wd_write" /\ pc'[p] = "done"

C33_TotalEarnedInLockstep ==
  [][\A u \in Users :
       /\ totalEarned'[u] >= totalEarned[u]
       /\ IF WithdrawalWrite
          THEN totalEarned'[u] = totalEarned[u]
          ELSE balance'[u] - balance[u] = totalEarned'[u] - totalEarned[u]]_vars

\* a deposit was credited, a reward was credited by an approval and by a
\* reconciliation, and a withdrawal was debited
C33_Witness ==
  /\ \E u \in Users : totalEarned[u] >= 10000 /\ balance[u] < totalEarned[u]
  /\ \E i \in Ids(creditLog) : creditLog[i].approve >= 1 /\ creditLog[i].recon >= 1
  /\ withdrawals # <<>>

\* C34: paid is terminal: a reward whose status is paid keeps its status,
\* amount, referrerId and referredUserId in every step of every operation,
\* and in every state a reward has paidAt set exactly when its status is paid
C34_PaidIsTerminal ==
  /\ [](\A i \in Ids(rewards) : rewards[i].paidAt <=> rewards[i].status = "paid")
  /\ [][\A i \in Ids(rewards) :
          rewards[i].status = "paid" =>
            /\ i \in Ids(rewards')
            /\ rewards'[i].status = "paid"
            /\ rewards'[i].amount = rewards[i].amount
            /\ rewards'[i].referrerId = rewards[i].referrerId
            /\ rewards'[i].referredUserId = rewards[i].referredUserId]_vars

\* a paid reward has been through the reconciliation, and a later reward exists
C34_Witness ==
  \E i, j \in Ids(rewards) :
    /\ i < j
    /\ rewards[i].status = "paid" /\ rewards[i].paidAt
    /\ EndsWithCredited(rewards[i].planType)
    /\ rewards[j].status = "pending"

\* C35: the reward step of a confirmation comes after the deposit
\* transaction has committed and undoes none of it: whatever the step does,
\* failing included, the deposits, the balances, totalEarned and the plan
\* rows stay, and the confirmation answers 201 with its deposit confirmed
\* and the plan row of the user present
RewardStage == {"confirm_reward", "confirm6_payout", "confirm7_reward"}

QualifyingDeposits(u) == {i \in Ids(deposits) :
  /\ deposits[i].userId = u
  /\ deposits[i].status \in {"confirmed", "approved"}
  /\ deposits[i].amount \in allowedPlans}

RewardExistsFor(u) ==
  \E i \in QualifyingDeposits(u), j \in Ids(rewards) :
    /\ rewards[j].referrerId = referredById[u]
    /\ rewards[j].referredUserId = u
    /\ rewards[j].status \in {"pending", "paid"}
    /\ rewards[j].amount = RewardLookup(deposits[i].amount)

C36_NoRewardDropped ==
  \A u \in Confirmers :
    (referredById[u] # NoUser /\ QualifyingDeposits(u) # {}) ~> RewardExistsFor(u)

\* C37: reward creation follows confirmation: a reward row for a referred
\* user exists only if the user has a deposit with status confirmed or
\* approved; a deposit that is only submitted produces no reward
C37_RewardFollowsConfirmation ==
  \A i \in Ids(rewards) :
    \E d \in Ids(deposits) :
      /\ deposits[d].userId = rewards[i].referredUserId
      /\ deposits[d].status \in {"confirmed", "approved"}

\* C38: attribution and the background code generation of a registration
\* are independent: no step of the generation, its exhaustion included,
\* changes a referredById, referredByCode or referralCount or takes back
\* the 201; and every step of the attribution, a failing one included,
\* stays in the attribution or starts the generation with the 201 on its way
InAttribution(p) == pc[p] \in {"pr_find", "pr_set", "pr_count", "reg2_find", "reg2_set"}

C38_AttributionAndGenerationIndependent ==
  [][\A p \in Procs :
       Registering(p) /\ pc'[p] # pc[p] =>
         /\ InGeneration(p) =>
              /\ UNCHANGED <<users, referredById, referredByCode, referralCount>>
              /\ loc'[p].flag
              /\ pc'[p] = "done" => loc'[p].out \in {"ok", "throw"}
         /\ InAttribution(p) =>
              /\ pc'[p] \in {"pr_set", "pr_count", "reg2_set", "goc_read"}
              /\ pc'[p] = "goc_read" => loc'[p].flag
              /\ loc[p].user \in users']_vars

\* the generation of an attributed registration has given up after
\* maxAttempts attempts: the user has a referrer and no code
C38_Witness ==
  \E p \in Procs :
    /\ pc[p] = "done" /\ Registering(p) /\ loc[p].flag
    /\ loc[p].out = "throw" /\ loc[p].attempts = maxAttempts
    /\ referredById[loc[p].user] # NoUser
    /\ referralCode[loc[p].user] = NoCode

\* C39: reconciliation is idempotent when run in sequence: a pass leaves
\* its user without an uncredited paid reward, nothing but a reward turning
\* paid brings one back, and a pass that finds none changes no balance, no
\* totalEarned and no reward; a pass changes only its user's balance and
\* totalEarned and the planType of that user's paid rewards as referrer
ReconPass(p) == pc[p] = "recon_credit" /\ pc'[p] # pc[p]
BecamePaid ==
  \E i \in Ids(rewards') :
    rewards'[i].status = "paid" /\ (i \notin Ids(rewards) \/ rewards[i].status # "paid")

C39_ReconciliationIdempotent ==
  [][/\ \A p \in Procs : ReconPass(p) =>
          LET u == loc[p].user
          IN /\ UncreditedPaid(u)' = {}
             /\ UncreditedPaid(u) = {} => UNCHANGED <<balance, totalEarned, rewards>>
             /\ \A v \in Users \ {u} :
                   balance'[v] = balance[v] /\ totalEarned'[v] = totalEarned[v]
             /\ balance'[u] - balance[u] = totalEarned'[u] - totalEarned[u]
             /\ Len(rewards') = Len(rewards)
             /\ \A i \in Ids(rewards) :
                   \/ rewards'[i] = rewards[i]
                   \/ /\ rewards[i].referrerId = u /\ rewards[i].status = "paid"
                      /\ rewards'[i] = [rewards[i] EXCEPT !.planType = rewards'[i].planType]
                      /\ EndsWithCredited(rewards'[i].planType)
             /\ UNCHANGED <<users, referralCode, referredById, referredByCode,
                            referralCount, deposits, plans, withdrawals>>
     /\ \A u \in Users :
          UncreditedPaid(u) = {} /\ ~BecamePaid => UncreditedPaid(u)' = {}]_vars

\* a second pass for a referrer whose paid reward the first pass credited
\* has read the rewards and found none to credit
C39_Witness ==
  \E p \in Procs :
    /\ pc[p] = "recon_credit" /\ loc[p].seen = {}
    /\ \E i \in Ids(rewards) :
         /\ rewards[i].referrerId = loc[p].user /\ rewards[i].status = "paid"
         /\ EndsWithCredited(rewards[i].planType)
         /\ creditLog[i].recon = 1

\* C40: withdrawal is gated by eligibility: the request that adds a
\* Withdrawal row is one of a user who has, at that moment, a plan row with
\* canWithdraw = true, profit > 0 and roundCount > 0
WithdrawalCreated(p) ==
  /\ pc[p] = "wd_write" /\ pc'[p] = "done"
  /\ Len(withdrawals') = Len(withdrawals) + 1

C40_WithdrawalGatedByEligibility ==
  [][\A p \in Procs : WithdrawalCreated(p) => CanWithdraw(plans, loc[p].user)]_vars

====
